---- MODULE Spec2Model ----
(***************************************************************************)
(* A model of the two ABS demographic analysis programs:                   *)
(*   Project 1  (src/ABS/Project 1/Project 1.py): main, match_age_to_group, *)
(*              parse_area_data                                            *)
(*   Project 2  (src/ABS/Project 2/Project 2 .py): clean_data,             *)
(*              create_area_lookup, output_OP1, output_OP2, output_OP3     *)
(*                                                                         *)
(* Text is modelled as a sequence of one-character strings, so that the    *)
(* string operations of the code (strip, lower, isdigit, int, split, +,    *)
(* substring test, lexicographic <) are computed and not assumed.          *)
(* Reported numbers that the code rounds with round(x, 4) are modelled as  *)
(* integers counting ten-thousandths (1.0 is 10000).                       *)
(***************************************************************************)
EXTENDS Integers, Sequences, FiniteSets, TLC

VARIABLES
  pc,                 \* position of the run under analysis
  \* ---- match_age_to_group (Project 1) ----
  age,                \* the age argument
  buckets,            \* the bucket structure the header labels were written from
  age_group_labels,   \* the header labels (text)
  matched,            \* the returned (label, open-ended flag)
  \* ---- parse_area_data (Project 1) ----
  area_lines,         \* the area file's rows; a row is a sequence of fields
  hierarchy,          \* the four mappings parse_area_data returns
  \* ---- main (Project 1) ----
  target_age,         \* argument: the age, as given (text)
  sa2_code_1,         \* argument: first SA2 code
  sa2_code_2,         \* argument: second SA2 code
  arg_types,          \* the Python types of target_age, sa2_code_1, sa2_code_2
  population_lines,   \* the population file's rows; a row is a sequence of fields
  age_group_index,    \* index of the matched label in the header
  age_bounds,         \* output 1
  sa3_stats,          \* output 2
  state_max_sa3,      \* output 3
  correlation,        \* output 4
  result,             \* "pending", "None" (main returned None), "raised" or "tuple"
  error,              \* why main returned None or what it raised ("" otherwise)
  files_read,         \* TRUE once main has opened the input files
  \* ---- Project 2 ----
  area_rows,          \* read_area_file's rows (records)
  pop_rows,           \* read_population_file's records
  cleaned_areas,      \* clean_data's first result
  cleaned_pops,       \* clean_data's second result
  recleaned,          \* clean_data(area_rows, cleaned_pops)
  area_lookup,        \* create_area_lookup(cleaned_areas)
  op1,                \* output_OP1's result
  op2,                \* output_OP2's result
  op3,                \* output_OP3's result
  \* ---- pure functions applied to drawn inputs ----
  sd_numbers,         \* calculate_sample_sd's argument
  sd_out,             \* what calculate_sample_sd did with it
  cos_list1,          \* cosine_similarity's first argument
  cos_list2,          \* cosine_similarity's second argument
  cosine_out          \* what cosine_similarity did with them

ageVars  == <<age, buckets, age_group_labels, matched>>
areaVars == <<area_lines, hierarchy>>
argVars  == <<target_age, sa2_code_1, sa2_code_2, arg_types, population_lines>>
outVars  == <<age_group_index, age_bounds, sa3_stats, state_max_sa3, correlation, result, error,
             files_read>>
mainVars == <<argVars, outVars>>
p2InVars == <<area_rows, pop_rows>>
p2Vars   == <<area_rows, pop_rows, cleaned_areas, cleaned_pops, recleaned, area_lookup,
              op1, op2, op3>>
statVars == <<sd_numbers, sd_out, cos_list1, cos_list2, cosine_out>>
vars     == <<pc, ageVars, areaVars, mainVars, p2Vars, statVars>>

(***************************************************************************)
(* Bounds of the model                                                     *)
(***************************************************************************)
MaxAge == 95

MaxAreaRows == 3

MaxVal == 1

(***************************************************************************)
(* Text: characters, and Python's str operations                           *)
(***************************************************************************)
\* The characters in use, in code-point order.
Alphabet ==
  <<" ", "+", "-", "0", "1", "2", "3", "4", "5", "6", "7", "8", "9",
    "A", "B", "C", "D", "E", "F", "G", "H", "I", "J", "K", "L", "M",
    "N", "O", "P", "Q", "R", "S", "T", "U", "V", "W", "X", "Y", "Z",
    "a", "b", "c", "d", "e", "f", "g", "h", "i", "j", "k", "l", "m",
    "n", "o", "p", "q", "r", "s", "t", "u", "v", "w", "x", "y", "z">>

OrdTable ==
  [c \in {Alphabet[i] : i \in 1..Len(Alphabet)} |-> CHOOSE i \in 1..Len(Alphabet) : Alphabet[i] = c]

\* the position of a character in the order of the code points
Ord(c) == OrdTable[c]

DigitChars == {"0", "1", "2", "3", "4", "5", "6", "7", "8", "9"}

IsDigitChar(c) == c \in DigitChars

DigitVal(c) == Ord(c) - Ord("0")

LowerTable ==
  [c \in {Alphabet[i] : i \in 1..Len(Alphabet)} |->
     IF Ord(c) >= Ord("A") /\ Ord(c) <= Ord("Z") THEN Alphabet[Ord(c) + (Ord("a") - Ord("A"))]
     ELSE c]

\* str.lower(), one character
LowerChar(c) == LowerTable[c]

\* str.lower()
Lower(s) == [i \in 1..Len(s) |-> LowerChar(s[i])]

\* str.strip(): leading and trailing blanks removed
Strip(s) ==
  LET idx == {i \in 1..Len(s) : s[i] # " "}
  IN  IF idx = {} THEN <<>>
      ELSE LET lo == CHOOSE i \in idx : \A j \in idx : i <= j
               hi == CHOOSE i \in idx : \A j \in idx : i >= j
           IN  SubSeq(s, lo, hi)

\* str.isdigit(): non-empty and every character a digit
IsDigit(s) == Len(s) > 0 /\ \A i \in 1..Len(s) : IsDigitChar(s[i])

RECURSIVE DigitsValue(_)
\* the number a digit string denotes
DigitsValue(s) ==
  IF Len(s) = 0 THEN 0
  ELSE 10 * DigitsValue(SubSeq(s, 1, Len(s) - 1)) + DigitVal(s[Len(s)])

\* int(s) succeeds: blanks around an optionally signed digit string
IntOk(s) ==
  LET t == Strip(s)
  IN  \/ IsDigit(t)
      \/ Len(t) > 1 /\ t[1] \in {"+", "-"} /\ IsDigit(Tail(t))

\* int(s), where IntOk(s)
IntOf(s) ==
  LET t == Strip(s)
  IN  IF IsDigit(t) THEN DigitsValue(t)
      ELSE IF t[1] = "-" THEN 0 - DigitsValue(Tail(t))
      ELSE DigitsValue(Tail(t))

\* sub in s
Contains(s, sub) ==
  \E i \in 1..(Len(s) - Len(sub) + 1) : SubSeq(s, i, i + Len(sub) - 1) = sub

RECURSIVE Split(_, _)
\* s.split(sep) for a one-character separator
Split(s, sep) ==
  LET idx == {i \in 1..Len(s) : s[i] = sep}
  IN  IF idx = {} THEN <<s>>
      ELSE LET k == CHOOSE i \in idx : \A j \in idx : i <= j
           IN  <<SubSeq(s, 1, k - 1)>> \o Split(SubSeq(s, k + 1, Len(s)), sep)

RECURSIVE StrLess(_, _)
\* a < b on str: lexicographic by code point
StrLess(a, b) ==
  IF Len(b) = 0 THEN FALSE
  ELSE IF Len(a) = 0 THEN TRUE
  ELSE IF a[1] # b[1] THEN Ord(a[1]) < Ord(b[1])
  ELSE StrLess(Tail(a), Tail(b))

RECURSIVE SelectSeqChars(_)
\* "".join(c if c.isdigit() or c == "-" else "" for c in label)
SelectSeqChars(s) ==
  IF Len(s) = 0 THEN <<>>
  ELSE (IF IsDigitChar(s[1]) \/ s[1] = "-" THEN <<s[1]>> ELSE <<>>)
       \o SelectSeqChars(Tail(s))

RECURSIVE Digits(_)
\* str(n) for n >= 0
Digits(n) ==
  IF n < 10 THEN <<Alphabet[Ord("0") + n]>>
  ELSE Digits(n \div 10) \o <<Alphabet[Ord("0") + (n % 10)]>>

\* The absent value of the code, where a text or a list is expected.
None == <<"None">>

(***************************************************************************)
(* Variables a run does not use keep these values.                         *)
(***************************************************************************)
AgeIdle ==
  /\ age = 0
  /\ buckets = <<>>
  /\ age_group_labels = <<>>
  /\ matched = [label |-> None, open |-> FALSE]

AreaIdle ==
  /\ area_lines = <<>>
  /\ hierarchy = <<>>

OutIdle ==
  /\ age_group_index = 0
  /\ age_bounds = <<>>
  /\ sa3_stats = <<>>
  /\ state_max_sa3 = <<>>
  /\ correlation = 0
  /\ result = "pending"
  /\ error = ""
  /\ files_read = FALSE

P2OutIdle ==
  /\ cleaned_areas = <<>>
  /\ cleaned_pops = <<>>
  /\ recleaned = <<>>
  /\ area_lookup = <<>>
  /\ op1 = <<>>
  /\ op2 = <<>>
  /\ op3 = <<>>

P2Idle ==
  /\ area_rows = <<>>
  /\ pop_rows = <<>>
  /\ P2OutIdle

MainIdle ==
  /\ target_age = <<>>
  /\ sa2_code_1 = <<>>
  /\ sa2_code_2 = <<>>
  /\ arg_types = <<>>
  /\ population_lines = <<>>
  /\ OutIdle

StatIdle ==
  /\ sd_numbers = <<>>
  /\ sd_out = <<>>
  /\ cos_list1 = <<>>
  /\ cos_list2 = <<>>
  /\ cosine_out = <<>>

(***************************************************************************)
(* Project 1: match_age_to_group                                           *)
(***************************************************************************)
OpenEndedPhrase == <<"8", "5", " ", "a", "n", "d", " ", "o", "v", "e", "r">>

OpenEndedFrom == 85

\* One label against the age: "open" / "closed" when it matches, "skip" otherwise.
MatchLabel(a, label) ==
  IF Contains(Lower(label), OpenEndedPhrase)
  THEN IF a >= OpenEndedFrom THEN "open" ELSE "skip"
  ELSE LET range_clean == SelectSeqChars(label)
           bounds      == Split(range_clean, "-")
       IN  IF Len(bounds) = 2 /\ IsDigit(bounds[1]) /\ IsDigit(bounds[2])
           THEN IF DigitsValue(bounds[1]) <= a /\ a <= DigitsValue(bounds[2])
                THEN "closed" ELSE "skip"
           ELSE "skip"

\* match_age_to_group(age, age_group_labels): the first label that matches
match_age_to_group(a, labels) ==
  LET hits == {i \in 1..Len(labels) : MatchLabel(a, labels[i]) # "skip"}
  IN  IF hits = {} THEN [label |-> None, open |-> FALSE]
      ELSE LET i == CHOOSE h \in hits : \A g \in hits : h <= g
           IN  [label |-> labels[i], open |-> MatchLabel(a, labels[i]) = "open"]

\* ---- the inputs: gap-free bucket lists over [0, infinity) ----
CutPoints == {5, 85, 90}

RECURSIVE SortedSeq(_)
\* the members of a set of numbers, ascending
SortedSeq(S) ==
  IF S = {} THEN <<>>
  ELSE LET m == CHOOSE x \in S : \A y \in S : x <= y
       IN  <<m>> \o SortedSeq(S \ {m})

\* closed buckets between consecutive cut points, then one open-ended bucket
BucketsOf(cuts) ==
  LET c == <<0>> \o SortedSeq(cuts)
  IN  [i \in 1..Len(c) |->
         IF i < Len(c) THEN [low |-> c[i], high |-> c[i + 1] - 1, open |-> FALSE]
         ELSE [low |-> c[i], high |-> c[i], open |-> TRUE]]

AgePrefix == <<"A", "g", "e", " ">>

AndOver == <<" ", "a", "n", "d", " ", "o", "v", "e", "r">>

\* the header text of a bucket: "Age 0-4", "Age 85 and over"
LabelOf(b) ==
  IF b.open THEN AgePrefix \o Digits(b.low) \o AndOver
  ELSE AgePrefix \o Digits(b.low) \o <<"-">> \o Digits(b.high)

BucketHolds(b, a) == IF b.open THEN a >= b.low ELSE b.low <= a /\ a <= b.high

InitAge ==
  /\ pc = "age_start"
  /\ age \in 0..MaxAge
  /\ \E cuts \in (SUBSET CutPoints) \ {{}} :
       /\ buckets = BucketsOf(cuts)
       /\ age_group_labels = [i \in 1..Len(BucketsOf(cuts)) |-> LabelOf(BucketsOf(cuts)[i])]
  /\ matched = [label |-> None, open |-> FALSE]
  /\ AreaIdle
  /\ MainIdle
  /\ P2Idle
  /\ StatIdle

MatchAge ==
  /\ UNCHANGED <<p2Vars, statVars>>
  /\ pc = "age_start"
  /\ matched' = match_age_to_group(age, age_group_labels)
  /\ pc' = "age_done"
  /\ UNCHANGED <<age, buckets, age_group_labels, areaVars, mainVars>>

NextAge == MatchAge

SpecAge == InitAge /\ [][NextAge]_vars

\* C1: for every non-negative age and every gap-free ordered bucket list (closed
\* buckets, then one open-ended bucket with any lower bound), match_age_to_group
\* returns a label, and exactly one label of the list contains the age: the
\* returned one.
C1_TotalUnique ==
  pc = "age_done" =>
    /\ matched.label # None
    /\ \E i \in 1..Len(buckets) :
         /\ age_group_labels[i] = matched.label
         /\ BucketHolds(buckets[i], age)
         /\ \A j \in 1..Len(buckets) : BucketHolds(buckets[j], age) => j = i

(***************************************************************************)
(* Dictionaries: functions over a finite set of keys                       *)
(***************************************************************************)
EmptyDict == <<>>

\* d[k] = v
Put(d, k, v) == (k :> v) @@ d

\* d.get(k, default)
Get(d, k, default) == IF k \in DOMAIN d THEN d[k] ELSE default

\* set(list)
SetOf(list) == {list[i] : i \in 1..Len(list)}

RECURSIVE SortedStr(_)
\* sorted(S) for a set of str
SortedStr(S) ==
  IF S = {} THEN <<>>
  ELSE LET m == CHOOSE x \in S : \A y \in S : y = x \/ StrLess(x, y)
       IN  <<m>> \o SortedStr(S \ {m})

(***************************************************************************)
(* Project 1: parse_area_data                                              *)
(* A row of the file is the list of its fields, line.split(",").           *)
(***************************************************************************)
AreaFieldCount == 5

\* One data row folded into the mappings (the body of the loop).
ParseAreaRow(acc, fields) ==
  IF Len(fields) < AreaFieldCount THEN acc
  ELSE LET state_name == Lower(Strip(fields[2]))
           sa3_code   == Strip(fields[3])
           sa3_name   == Lower(Strip(fields[4]))
           sa2_code   == Strip(fields[5])
       IN  IF sa2_code \in acc.seen_sa2_codes THEN acc
           ELSE [seen_sa2_codes   |-> acc.seen_sa2_codes \cup {sa2_code},
                 sa2_to_sa3       |-> Put(acc.sa2_to_sa3, sa2_code, sa3_code),
                 sa3_to_state     |-> Put(acc.sa3_to_state, sa3_code, state_name),
                 sa3_to_name      |-> Put(acc.sa3_to_name, sa3_code, sa3_name),
                 state_to_sa3_map |-> Put(acc.state_to_sa3_map, state_name,
                                          Append(Get(acc.state_to_sa3_map, state_name, <<>>),
                                                 sa3_code))]

RECURSIVE ParseAreaRows(_, _)
ParseAreaRows(acc, rows) ==
  IF Len(rows) = 0 THEN acc
  ELSE ParseAreaRows(ParseAreaRow(acc, Head(rows)), Tail(rows))

\* parse_area_data without lines 300-302: the lists stay as they were appended
parse_area_data_Unsorted(lines) ==
  LET acc == ParseAreaRows([seen_sa2_codes |-> {}, sa2_to_sa3 |-> EmptyDict,
                            sa3_to_state |-> EmptyDict, sa3_to_name |-> EmptyDict,
                            state_to_sa3_map |-> EmptyDict],
                           Tail(lines))
  IN  [sa2_to_sa3       |-> acc.sa2_to_sa3,
       sa3_to_state     |-> acc.sa3_to_state,
       sa3_to_name      |-> acc.sa3_to_name,
       state_to_sa3_map |-> acc.state_to_sa3_map]

\* parse_area_data(area_lines): the header is skipped, the rows folded, and every
\* state's list is deduplicated and sorted.
parse_area_data(lines) ==
  LET acc == ParseAreaRows([seen_sa2_codes |-> {}, sa2_to_sa3 |-> EmptyDict,
                            sa3_to_state |-> EmptyDict, sa3_to_name |-> EmptyDict,
                            state_to_sa3_map |-> EmptyDict],
                           Tail(lines))
  IN  [sa2_to_sa3       |-> acc.sa2_to_sa3,
       sa3_to_state     |-> acc.sa3_to_state,
       sa3_to_name      |-> acc.sa3_to_name,
       state_to_sa3_map |-> [st \in DOMAIN acc.state_to_sa3_map |->
                               SortedStr(SetOf(acc.state_to_sa3_map[st]))]]

\* ---- the inputs: area files ----
\* SA2 codes are nine digits; these differ in the last one.
Sa2Code(d) == <<"4", "0", "1", "0", "1", "1", "0", "0", d>>

AreaHeader ==
  << <<"S", "_", "T", " ", "c", "o", "d", "e">>, <<"S", "_", "T", " ", "n", "a", "m", "e">>,
     <<"S", "A", "3", " ", "c", "o", "d", "e">>, <<"S", "A", "3", " ", "n", "a", "m", "e">>,
     <<"S", "A", "2", " ", "c", "o", "d", "e">> >>

\* state names as the file spells them: two spellings of one state, and another state
StateSpellings == { <<"S", "A">>, <<" ", "s", "a">>, <<"W", "A">> }

Sa3Codes == { <<"3", "1">>, <<"3", "2">> }

Sa3NameOf(sa3) == <<"N">> \o sa3

AreaSa2Digits == {"1", "2"}

AreaRows ==
  { << <<"4">>, st, sa3, Sa3NameOf(sa3), Sa2Code(d) >> :
       st \in StateSpellings, sa3 \in Sa3Codes, d \in AreaSa2Digits }
  \cup { << <<"4">>, <<"S", "A">>, <<"3", "1">>, Sa3NameOf(<<"3", "1">>) >> }

RECURSIVE SeqsUpTo(_, _)
\* the sequences over S of length at most n
SeqsUpTo(S, n) ==
  IF n = 0 THEN {<<>>}
  ELSE LET shorter == SeqsUpTo(S, n - 1)
       IN  shorter \cup {Append(q, x) : q \in {r \in shorter : Len(r) = n - 1}, x \in S}

InitArea ==
  /\ pc = "area_start"
  /\ area_lines \in {<<AreaHeader>> \o rows : rows \in SeqsUpTo(AreaRows, MaxAreaRows)}
  /\ hierarchy = <<>>
  /\ AgeIdle
  /\ MainIdle
  /\ P2Idle
  /\ StatIdle

ParseArea ==
  /\ UNCHANGED <<p2Vars, statVars>>
  /\ pc = "area_start"
  /\ hierarchy' = parse_area_data(area_lines)
  /\ pc' = "area_done"
  /\ UNCHANGED <<area_lines, ageVars, mainVars>>

NextArea == ParseArea

SpecArea == InitArea /\ [][NextArea]_vars

\* the data rows of the area file that parse_area_data reads (five fields or more)
AreaDataRows == SelectSeq(Tail(area_lines), LAMBDA r : Len(r) >= AreaFieldCount)

\* C8: after parse_area_data the hierarchy is many-to-one: each SA2 code maps to the
\* SA3 code of the first row that carried it, and each SA3 code is in exactly one
\* state's list of state_to_sa3_map, the state sa3_to_state gives it.
C8_ManyToOne ==
  pc = "area_done" =>
    /\ \A i \in 1..Len(AreaDataRows) :
         LET sa2 == Strip(AreaDataRows[i][5])
         IN  (\A j \in 1..(i - 1) : Strip(AreaDataRows[j][5]) # sa2)
               => /\ sa2 \in DOMAIN hierarchy.sa2_to_sa3
                  /\ hierarchy.sa2_to_sa3[sa2] = Strip(AreaDataRows[i][3])
    /\ \A sa3 \in DOMAIN hierarchy.sa3_to_state :
         \A st \in DOMAIN hierarchy.state_to_sa3_map :
           (sa3 \in SetOf(hierarchy.state_to_sa3_map[st])) <=> (st = hierarchy.sa3_to_state[sa3])

(***************************************************************************)
(* Numbers: the code computes in floating point and reports round(x, 4).   *)
(* The model computes the same quantities exactly, as fractions, and       *)
(* reports the rounded value in ten-thousandths.  Products are compared    *)
(* by continued division, so that no intermediate value leaves the range   *)
(* of the integers in use.                                                 *)
(***************************************************************************)
\* round(x, 4): one unit of a reported number is 1/Scale
Scale == 10000

Abs(x) == IF x < 0 THEN 0 - x ELSE x

RECURSIVE Gcd(_, _)
Gcd(a, b) == IF b = 0 THEN a ELSE Gcd(b, a % b)

RECURSIVE FracLeq(_, _, _, _)
\* a/b <= c/d, for a, c >= 0 and b, d > 0
FracLeq(a, b, c, d) ==
  LET qa == a \div b
      qc == c \div d
      ra == a % b
      rc == c % d
  IN  IF qa # qc THEN qa < qc
      ELSE IF ra = 0 THEN TRUE
      ELSE IF rc = 0 THEN FALSE
      ELSE FracLeq(d, rc, b, ra)

\* round(num / den, 4) in units of 1/Scale, for den > 0; a tie goes to the even unit
Round4(num, den) ==
  LET n2 == 2 * Scale * Abs(num)
      d2 == 2 * den
      up == (n2 + den) \div d2
      k  == IF (n2 + den) % d2 = 0 /\ up % 2 = 1 THEN up - 1 ELSE up
  IN  IF num < 0 THEN 0 - k ELSE k

\* (2m - 1) / (2 Scale) <= sqrt(p / q), for m >= 1, p >= 0, q > 0
HalfStepBelowRoot(m, p, q) ==
  FracLeq(2 * m - 1, 2 * Scale, p * (2 * Scale), q * (2 * m - 1))

RECURSIVE RootSearch(_, _, _, _)
\* the largest m in lo..hi with HalfStepBelowRoot(m, p, q), given it holds at lo
\* (or lo = 0) and fails above hi
RootSearch(lo, hi, p, q) ==
  IF lo >= hi THEN lo
  ELSE LET mid == (lo + hi + 1) \div 2
       IN  IF HalfStepBelowRoot(mid, p, q) THEN RootSearch(mid, hi, p, q)
           ELSE RootSearch(lo, mid - 1, p, q)

\* round((p / q) ** 0.5, 4) in units of 1/Scale, for p >= 0 and q > 0
RoundRoot4(p, q) ==
  LET g  == Gcd(p, q)
      pr == p \div g
      qr == q \div g
      hi == Scale * ((pr \div qr) + 1)
      m  == RootSearch(0, hi, pr, qr)
      tie == m >= 1 /\ FracLeq(pr * (2 * Scale), qr * (2 * m - 1), 2 * m - 1, 2 * Scale)
  IN  IF tie /\ m % 2 = 1 THEN m - 1 ELSE m

\* max(S)
Max(S) == CHOOSE x \in S : \A y \in S : y <= x

RECURSIVE SumSeq(_)
\* sum(list)
SumSeq(list) == IF Len(list) = 0 THEN 0 ELSE Head(list) + SumSeq(Tail(list))

\* sum(x * y for x, y in zip(xs, ys)), the lists of one length
DotSeq(xs, ys) == SumSeq([i \in 1..Len(xs) |-> xs[i] * ys[i]])

(***************************************************************************)
(* Project 1: main                                                         *)
(* The two files are the lists of their non-empty stripped lines, each     *)
(* line the list of its fields (line.split(",")).                          *)
(***************************************************************************)
Sa2CodeLen == 9

\* the exceptions of Steps 1-2 that no except clause of main catches
Uncaught == {"TypeError", "AttributeError"}

\* Steps 1-2 (lines 20-40) on arguments of the Python types `types`, each given
\* by its str(): "" when the arguments pass, an exception of Uncaught that
\* leaves main, else the reason main returns None.  int() raises TypeError for
\* None (the except clause names ValueError only); the loop of Step 2 converts
\* its own variable with str(), so lines 39-40 call .strip() on the argument
\* as it was given
ValidateArgs(types, t_age, code1, code2) ==
  IF types[1] = "None" THEN "TypeError"
  ELSE IF types[1] = "str" /\ ~IntOk(t_age) THEN "ValueError"
  ELSE IF IntOf(t_age) < 0 THEN "negative age"
  ELSE IF \E c \in {code1, code2} : ~IsDigit(Strip(c)) \/ Len(Strip(c)) # Sa2CodeLen
       THEN "invalid SA2 code"
  ELSE IF types[2] # "str" \/ types[3] # "str" THEN "AttributeError"
  ELSE ""

\* Step 4: the age group labels of the population header
HeaderLabels(lines) ==
  LET header_columns == lines[1]
  IN  [i \in 1..(IF Len(header_columns) > 2 THEN Len(header_columns) - 2 ELSE 0) |->
         Strip(header_columns[i + 2])]

\* list.index(x), counted from 0
IndexOf(list, x) == (CHOOSE i \in 1..Len(list) : list[i] = x /\ \A j \in 1..(i - 1) : list[j] # x) - 1

FirstAgeGroup == 0

LastAgeGroup == 85

AgeGroupWidth == 5

\* Output 1: the bounds of the five-year group holding the age
AgeBoundsOf(a) ==
  LET lowers == {l \in FirstAgeGroup..LastAgeGroup :
                   /\ l % AgeGroupWidth = 0
                   /\ (l <= a /\ a <= l + AgeGroupWidth - 1) \/ (l = LastAgeGroup /\ a >= LastAgeGroup)}
  IN  IF lowers = {} THEN <<"None", "None">>
      ELSE LET lower == CHOOSE l \in lowers : \A m \in lowers : l <= m
           IN  IF lower = LastAgeGroup THEN <<lower, "None">>
               ELSE <<lower, lower + AgeGroupWidth - 1>>

\* int(x.strip() or 0) succeeds
FieldOk(f) == Strip(f) = <<>> \/ IntOk(f)

\* int(x.strip() or 0)
FieldInt(f) == IF Strip(f) = <<>> THEN 0 ELSE IntOf(f)

\* "not sa3_code": no SA3, or an empty code
Falsy(text) == text = None \/ text = <<>>

RECURSIVE AgeGroupCounts(_, _, _)
\* Output 2, lines 117-126: the target group's count of every row of the SA3's
\* SA2s; a row whose field cannot be read counts as 0
AgeGroupCounts(same_sa3_sa2s, idx, rows) ==
  IF Len(rows) = 0 THEN <<>>
  ELSE LET columns == Head(rows)
           here == IF Strip(columns[1]) \notin same_sa3_sa2s THEN <<>>
                   ELSE IF Len(columns) >= idx + 3 /\ FieldOk(columns[idx + 3])
                        THEN <<FieldInt(columns[idx + 3])>>
                        ELSE <<0>>
       IN  here \o AgeGroupCounts(same_sa3_sa2s, idx, Tail(rows))

\* Output 2, lines 128-141: [code, round(mean, 4), round(std_dev, 4)]
GroupStats(sa3_code, age_group_counts) ==
  LET n  == Len(age_group_counts)
      s  == SumSeq(age_group_counts)
      sq == DotSeq(age_group_counts, age_group_counts)
  IN  IF n = 0 THEN <<sa3_code, 0, 0>>
      ELSE IF n = 1 THEN <<sa3_code, Round4(s, n), 0>>
      ELSE <<sa3_code, Round4(s, n), RoundRoot4(n * sq - s * s, n * (n - 1))>>

Sa3StatsFor(sa2_code, h, idx, lines) ==
  LET sa3_code == Get(h.sa2_to_sa3, sa2_code, None)
  IN  IF Falsy(sa3_code) THEN <<sa2_code, 0, 0>>
      ELSE LET same_sa3_sa2s == {k \in DOMAIN h.sa2_to_sa3 : h.sa2_to_sa3[k] = sa3_code}
           IN  GroupStats(sa3_code, AgeGroupCounts(same_sa3_sa2s, idx, Tail(lines)))

\* Output 2
Output2(code1, code2, h, idx, lines) ==
  <<Sa3StatsFor(code1, h, idx, lines), Sa3StatsFor(code2, h, idx, lines)>>

\* sum(int(x.strip() or 0) for x in columns[2:] if x.strip().isdigit())
TotalPop(columns) ==
  SumSeq([i \in 1..(IF Len(columns) > 2 THEN Len(columns) - 2 ELSE 0) |->
            IF IsDigit(Strip(columns[i + 2])) THEN FieldInt(columns[i + 2]) ELSE 0])

\* Output 3, lines 150-165: one row added to the totals of its SA3, or skipped
AggregateRow(acc, columns, h, idx) ==
  LET sa3 == Get(h.sa2_to_sa3, Strip(columns[1]), None)
  IN  IF Falsy(sa3) THEN acc
      ELSE IF Len(columns) < idx + 3 \/ ~FieldOk(columns[idx + 3]) THEN acc
      ELSE [sa3_age_group_total  |-> Put(acc.sa3_age_group_total, sa3,
                                         Get(acc.sa3_age_group_total, sa3, 0)
                                           + FieldInt(columns[idx + 3])),
            sa3_population_total |-> Put(acc.sa3_population_total, sa3,
                                         Get(acc.sa3_population_total, sa3, 0)
                                           + TotalPop(columns))]

RECURSIVE AggregateRows(_, _, _, _)
AggregateRows(acc, rows, h, idx) ==
  IF Len(rows) = 0 THEN acc
  ELSE AggregateRows(AggregateRow(acc, Head(rows), h, idx), Tail(rows), h, idx)

\* Output 3, line 176: one SA3 of the state against the best so far.  Comparing a
\* code with the initial None raises TypeError.
SearchStep(st, sa3, sa3_age_group_total) ==
  LET age_total == Get(sa3_age_group_total, sa3, 0)
      taken     == [max_sa3 |-> sa3, max_age_count |-> age_total, error |-> ""]
  IN  IF st.error # "" THEN st
      ELSE IF age_total > st.max_age_count THEN taken
      ELSE IF age_total = st.max_age_count
           THEN IF st.max_sa3 = None THEN [st EXCEPT !.error = "TypeError"]
                ELSE IF StrLess(sa3, st.max_sa3) THEN taken ELSE st
      ELSE st

RECURSIVE SearchState(_, _, _)
SearchState(st, sa3s, sa3_age_group_total) ==
  IF Len(sa3s) = 0 THEN st
  ELSE SearchState(SearchStep(st, Head(sa3s), sa3_age_group_total), Tail(sa3s),
                   sa3_age_group_total)

\* Output 3, lines 169-183: the entry of one state
StateEntry(state, h, totals) ==
  LET st == SearchState([max_sa3 |-> None, max_age_count |-> -1, error |-> ""],
                        h.state_to_sa3_map[state], totals.sa3_age_group_total)
      total == Get(totals.sa3_population_total, st.max_sa3, 0)
      proportion == IF total # 0 THEN Round4(st.max_age_count, total) ELSE 0
  IN  [error |-> st.error,
       entry |-> <<state, Get(h.sa3_to_name, st.max_sa3, <<>>), proportion>>]

\* Output 3
Output3(h, idx, lines) ==
  LET totals == AggregateRows([sa3_age_group_total |-> EmptyDict,
                               sa3_population_total |-> EmptyDict],
                              Tail(lines), h, idx)
      states == SortedStr(DOMAIN h.state_to_sa3_map)
      each   == [i \in 1..Len(states) |-> StateEntry(states[i], h, totals)]
  IN  IF \E i \in 1..Len(states) : each[i].error # ""
      THEN [error |-> "TypeError", state_max_sa3 |-> <<>>]
      ELSE [error |-> "", state_max_sa3 |-> [i \in 1..Len(states) |-> each[i].entry]]

\* [int(x.strip() or 0) for x in columns[2:]], where every field can be read
AgeDist(columns) ==
  [i \in 1..(IF Len(columns) > 2 THEN Len(columns) - 2 ELSE 0) |-> FieldInt(columns[i + 2])]

AgeDistOk(columns) == \A i \in 3..Len(columns) : FieldOk(columns[i])

\* age_dist = None
NoneDist == [found |-> FALSE, dist |-> <<>>]

RECURSIVE FindDist(_, _, _)
\* Output 4, lines 190-198: the distribution of the last row of the code (None when
\* no row has it)
FindDist(found, rows, sa2_code) ==
  IF Len(rows) = 0 THEN found
  ELSE FindDist(IF Strip(Head(rows)[1]) = sa2_code
                THEN [found |-> TRUE, dist |-> AgeDist(Head(rows))] ELSE found,
                Tail(rows), sa2_code)

\* "not age_dist": None or an empty list
NoDist(d) == ~d.found \/ Len(d.dist) = 0

\* The deviations are kept times n, so that they are whole numbers: with
\* dx = n * (x - mean1) and dy = n * (y - mean2), the code's numerator is
\* num / n^2 and its denominator is densq ** 0.5 / n^2, for num = DotSeq(dx, dy)
\* and densq = DotSeq(dx, dx) * DotSeq(dy, dy).

\* the denominator without its square root
Ratio_NoRoot(num, densq, n) ==
  IF densq = 0 THEN 0 ELSE Round4(num * n * n, densq)

\* line 215: round(numerator / denominator if denominator else 0.0, 4)
Ratio(num, densq, n) ==
  IF densq = 0 THEN 0
  ELSE IF num < 0 THEN 0 - RoundRoot4(num * num, densq)
  ELSE RoundRoot4(num * num, densq)

\* lines 204-215: the correlation of two distributions of one length
PearsonOf(age_dist_1, age_dist_2) ==
  LET n  == Len(age_dist_1)
      s1 == SumSeq(age_dist_1)
      s2 == SumSeq(age_dist_2)
      dx == [i \in 1..n |-> n * age_dist_1[i] - s1]
      dy == [i \in 1..n |-> n * age_dist_2[i] - s2]
  IN  IF n = 0 THEN [error |-> "ZeroDivisionError", correlation |-> 0]
      ELSE IF (\A i \in 1..n : dx[i] = 0) \/ (\A i \in 1..n : dy[i] = 0)
      THEN [error |-> "", correlation |-> 0]
      ELSE [error |-> "",
            correlation |-> Ratio(DotSeq(dx, dy), DotSeq(dx, dx) * DotSeq(dy, dy), n)]

\* only None counts as no distribution, an empty list does not
Pearson_NoneOnly(found_1, found_2) ==
  IF ~found_1.found \/ ~found_2.found \/ Len(found_1.dist) # Len(found_2.dist)
  THEN [error |-> "", correlation |-> 0]
  ELSE PearsonOf(found_1.dist, found_2.dist)

\* Output 4, lines 201-215: the Pearson correlation, 0.0 when there is nothing to
\* compare
Pearson(found_1, found_2) ==
  IF NoDist(found_1) \/ NoDist(found_2) \/ Len(found_1.dist) # Len(found_2.dist)
  THEN [error |-> "", correlation |-> 0]
  ELSE PearsonOf(found_1.dist, found_2.dist)

\* Output 4
Output4(code1, code2, lines) ==
  IF \E i \in 2..Len(lines) :
       Strip(lines[i][1]) \in {code1, code2} /\ ~AgeDistOk(lines[i])
  THEN [error |-> "ValueError", correlation |-> 0]
  ELSE Pearson(FindDist(NoneDist, Tail(lines), code1), FindDist(NoneDist, Tail(lines), code2))

\* main returns None
ReturnNone(why) ==
  /\ result' = "None"
  /\ error' = why
  /\ pc' = "p1_done"

\* an exception leaves main
Raise(why) ==
  /\ result' = "raised"
  /\ error' = why
  /\ pc' = "p1_done"

\* Steps 1-2 (lines 20-40)
P1Validate ==
  /\ UNCHANGED <<p2Vars, statVars>>
  /\ pc = "p1_validate"
  /\ LET why == ValidateArgs(arg_types, target_age, sa2_code_1, sa2_code_2)
     IN  IF why \in Uncaught
         THEN /\ Raise(why)
              /\ UNCHANGED <<age, sa2_code_1, sa2_code_2>>
         ELSE IF why # ""
         THEN /\ ReturnNone(why)
              /\ UNCHANGED <<age, sa2_code_1, sa2_code_2>>
         ELSE /\ age' = IntOf(target_age)
              /\ sa2_code_1' = Strip(sa2_code_1)
              /\ sa2_code_2' = Strip(sa2_code_2)
              /\ pc' = "p1_load"
              /\ UNCHANGED <<result, error>>
  /\ UNCHANGED <<buckets, age_group_labels, matched, areaVars, target_age, arg_types,
                 population_lines, files_read,
                 age_group_index, age_bounds, sa3_stats, state_max_sa3, correlation>>

\* Steps 3-6 (lines 55-85)
P1Load ==
  /\ UNCHANGED <<p2Vars, statVars>>
  /\ pc = "p1_load"
  /\ files_read' = TRUE
  /\ IF Len(area_lines) < 2 \/ Len(population_lines) < 2
     THEN /\ ReturnNone("no data row")
          /\ UNCHANGED <<age_group_labels, matched, age_group_index, hierarchy>>
     ELSE LET labels == HeaderLabels(population_lines)
              m      == match_age_to_group(age, labels)
          IN  /\ age_group_labels' = labels
              /\ matched' = m
              /\ IF m.label = None
                 THEN /\ ReturnNone("age group not found")
                      /\ UNCHANGED <<age_group_index, hierarchy>>
                 ELSE /\ age_group_index' = IndexOf(labels, m.label)
                      /\ hierarchy' = parse_area_data(area_lines)
                      /\ pc' = "p1_out1"
                      /\ UNCHANGED <<result, error>>
  /\ UNCHANGED <<age, buckets, area_lines, argVars, age_bounds, sa3_stats, state_max_sa3,
                 correlation>>

\* Output 1 (lines 91-100)
P1Output1 ==
  /\ UNCHANGED <<p2Vars, statVars>>
  /\ pc = "p1_out1"
  /\ age_bounds' = AgeBoundsOf(age)
  /\ pc' = "p1_out2"
  /\ UNCHANGED <<ageVars, areaVars, argVars, files_read, age_group_index, sa3_stats, state_max_sa3,
                 correlation, result, error>>

\* Output 2 (lines 103-141)
P1Output2 ==
  /\ UNCHANGED <<p2Vars, statVars>>
  /\ pc = "p1_out2"
  /\ sa3_stats' = Output2(sa2_code_1, sa2_code_2, hierarchy, age_group_index, population_lines)
  /\ pc' = "p1_out3"
  /\ UNCHANGED <<ageVars, areaVars, argVars, files_read, age_group_index, age_bounds, state_max_sa3,
                 correlation, result, error>>

\* Output 3 (lines 144-186)
P1Output3 ==
  /\ UNCHANGED <<p2Vars, statVars>>
  /\ pc = "p1_out3"
  /\ LET o == Output3(hierarchy, age_group_index, population_lines)
     IN  IF o.error # ""
         THEN /\ ReturnNone(o.error)
              /\ UNCHANGED state_max_sa3
         ELSE /\ state_max_sa3' = o.state_max_sa3
              /\ pc' = "p1_out4"
              /\ UNCHANGED <<result, error>>
  /\ UNCHANGED <<ageVars, areaVars, argVars, files_read, age_group_index, age_bounds, sa3_stats,
                 correlation>>

\* Output 4 and the return (lines 189-225)
P1Output4 ==
  /\ UNCHANGED <<p2Vars, statVars>>
  /\ pc = "p1_out4"
  /\ LET o == Output4(sa2_code_1, sa2_code_2, population_lines)
     IN  IF o.error # ""
         THEN /\ ReturnNone(o.error)
              /\ UNCHANGED correlation
         ELSE /\ correlation' = o.correlation
              /\ result' = "tuple"
              /\ pc' = "p1_done"
              /\ UNCHANGED error
  /\ UNCHANGED <<ageVars, areaVars, argVars, files_read, age_group_index, age_bounds, sa3_stats,
                 state_max_sa3>>

NextMain1 ==
  \/ P1Validate
  \/ P1Load
  \/ P1Output1
  \/ P1Output2
  \/ P1Output3
  \/ P1Output4

\* ---- the inputs of main ----
\* the header: two leading columns, then the labels of a gap-free bucket list
PopHeaderCuts == {5, 85}

PopHeader ==
  << <<"C", "o", "d", "e">>, <<"N", "a", "m", "e">> >>
  \o [i \in 1..Len(BucketsOf(PopHeaderCuts)) |-> LabelOf(BucketsOf(PopHeaderCuts)[i])]

AgeColumns == Len(BucketsOf(PopHeaderCuts))

\* a count as the file writes it
Counts == {Digits(v) : v \in 0..MaxVal}

RECURSIVE Tuples(_, _)
\* the sequences over S of length n
Tuples(S, n) ==
  IF n = 0 THEN {<<>>} ELSE {Append(q, x) : q \in Tuples(S, n - 1), x \in S}

\* the age fields of a population row: every well-formed row, and the malformed ones
\* (too few columns, a field that is no number, an empty field)
PopFields ==
  Tuples(Counts, AgeColumns)
  \cup { <<>>, << <<"1">> >>,
         << <<"x">>, <<"1">>, <<"0">> >>, << <<"1">>, <<"0">>, <<"x">> >>,
         << <<>>, <<"1">>, <<"0">> >> }

PopSa2Digits == {"1", "2"}

\* the numbers of data rows of a population file
PopFileRows == {0, 1, 2}

PopRows == { <<Sa2Code(d), <<"n">>>> \o f : d \in PopSa2Digits, f \in PopFields }

TargetAges == { <<"3">> }

\* the SA2 code arguments: two codes of the area file, and one it does not hold
ArgSa2Pairs ==
  { <<Sa2Code(d), Sa2Code(e)>> : d \in {"1", "3"}, e \in {"1", "2", "3"} }

\* the area files: SA2 ...1 in SA3 31 of SA, and SA2 ...2 in either SA3 of either state
AreaTables ==
  { <<AreaHeader,
      << <<"4">>, <<"S", "A">>, <<"3", "1">>, Sa3NameOf(<<"3", "1">>), Sa2Code("1") >>,
      << <<"4">>, st, sa3, Sa3NameOf(sa3), Sa2Code("2") >> >> :
      st \in { <<"S", "A">>, <<"W", "A">> }, sa3 \in Sa3Codes }

InitMain1 ==
  /\ pc = "p1_validate"
  /\ target_age \in TargetAges
  /\ \E codes \in ArgSa2Pairs : sa2_code_1 = codes[1] /\ sa2_code_2 = codes[2]
  /\ arg_types = <<"int", "str", "str">>
  /\ area_lines \in AreaTables
  /\ population_lines \in {<<PopHeader>> \o rows : rows \in SeqsUpTo(PopRows, Max(PopFileRows))}
  /\ hierarchy = <<>>
  /\ AgeIdle
  /\ OutIdle
  /\ P2Idle
  /\ StatIdle

SpecMain1 == InitMain1 /\ [][NextMain1]_vars

(***************************************************************************)
(* Project 1 main: what the population file says about one SA2 code        *)
(***************************************************************************)
\* the data rows of the population file that carry the code
RowsOf(sa2_code) ==
  {i \in 2..Len(population_lines) : Strip(population_lines[i][1]) = sa2_code}

\* the SA2's age vector is absent from the population file
VectorAbsent(sa2_code) == RowsOf(sa2_code) = {}

\* the age fields of the last row of the code
VectorFields(sa2_code) ==
  LET row == population_lines[Max(RowsOf(sa2_code))]
  IN  [i \in 1..(IF Len(row) > 2 THEN Len(row) - 2 ELSE 0) |-> row[i + 2]]

\* the vector is constant: every field denotes one number
VectorConstant(sa2_code) ==
  LET v == VectorFields(sa2_code)
  IN  \A i, j \in 1..Len(v) : FieldInt(v[i]) = FieldInt(v[j])

Degenerate ==
  \/ VectorAbsent(sa2_code_1)
  \/ VectorAbsent(sa2_code_2)
  \/ Len(VectorFields(sa2_code_1)) # Len(VectorFields(sa2_code_2))
  \/ VectorConstant(sa2_code_1)
  \/ VectorConstant(sa2_code_2)

\* C2 as stated: with one valid SA2 code given as both sa2_code_1 and sa2_code_2,
\* and a population file that has a data row, main returns a correlation of
\* exactly 1.0 and does not end in a division error, whatever the file holds.
C2_SameCodeAlwaysOne ==
  (pc = "p1_done" /\ sa2_code_1 = sa2_code_2 /\ Len(population_lines) >= 2)
    => /\ result = "tuple"
       /\ correlation = Scale
       /\ error # "ZeroDivisionError"

\* C2 as amended: with one valid SA2 code given twice, main never ends in a
\* division error, and whenever it returns a result the correlation is exactly
\* 1.0 if the last population row of the code has a non-constant age
\* distribution, and 0.0 if the code has no row or its distribution is constant
\* (or empty).
C2_SameCode ==
  (pc = "p1_done" /\ sa2_code_1 = sa2_code_2)
    => /\ error # "ZeroDivisionError"
       /\ result = "tuple" =>
            correlation = (IF VectorAbsent(sa2_code_1) \/ VectorConstant(sa2_code_1)
                           THEN 0 ELSE Scale)

C2_Witness ==
  /\ pc = "p1_done"
  /\ sa2_code_1 = sa2_code_2
  /\ result = "tuple"
  /\ ~VectorAbsent(sa2_code_1)
  /\ ~VectorConstant(sa2_code_1)
  /\ correlation = Scale

\* C4: whenever main reports a correlation and either SA2's age vector is absent
\* from the population file, the two vectors differ in length, or either vector
\* is constant, the reported correlation is 0.0; and main never ends in a
\* division by zero.
C4_DegeneratePolicy ==
  pc = "p1_done" =>
    /\ error # "ZeroDivisionError"
    /\ (result = "tuple" /\ Degenerate) => correlation = 0

C4_Witness ==
  /\ pc = "p1_done"
  /\ result = "tuple"
  /\ ~VectorAbsent(sa2_code_1)
  /\ ~VectorAbsent(sa2_code_2)
  /\ sa2_code_1 # sa2_code_2
  /\ Len(VectorFields(sa2_code_1)) = Len(VectorFields(sa2_code_2))
  /\ Len(VectorFields(sa2_code_1)) > 0
  /\ VectorConstant(sa2_code_1)
  /\ ~VectorConstant(sa2_code_2)
  /\ correlation = 0

\* a population data row is malformed: it has fewer columns than the header, a
\* population field that is neither empty nor a number, or the SA2 code of an
\* earlier row
MalformedRow(i) ==
  LET row == population_lines[i]
  IN  \/ Len(row) < Len(population_lines[1])
      \/ \E k \in 3..Len(row) : ~FieldOk(row[k])
      \/ \E j \in 2..(i - 1) : Strip(population_lines[j][1]) = Strip(row[1])

RECURSIVE WellFormedFrom(_)
\* the rows i..Len(population_lines) that are not malformed
WellFormedFrom(i) ==
  IF i > Len(population_lines) THEN <<>>
  ELSE (IF MalformedRow(i) THEN <<>> ELSE <<population_lines[i]>>) \o WellFormedFrom(i + 1)

\* the population file without its malformed rows
WellFormedLines == <<population_lines[1]>> \o WellFormedFrom(2)

\* C3: a malformed population row never aborts the run: for a population file
\* with a valid header and a data row, and valid arguments, main returns the
\* result tuple, and every output is what the file without its malformed rows
\* gives.
C3_RowSkip ==
  (pc = "p1_done" /\ Len(population_lines) >= 2)
    => /\ result = "tuple"
       /\ sa3_stats = Output2(sa2_code_1, sa2_code_2, hierarchy, age_group_index,
                              WellFormedLines)
       /\ state_max_sa3 = Output3(hierarchy, age_group_index, WellFormedLines).state_max_sa3
       /\ correlation = Output4(sa2_code_1, sa2_code_2, WellFormedLines).correlation

\* the totals of the SA3s, as Output 3 adds them up
Sa3Totals ==
  AggregateRows([sa3_age_group_total |-> EmptyDict, sa3_population_total |-> EmptyDict],
                Tail(population_lines), hierarchy, age_group_index)

AgeTotalOf(sa3) == Get(Sa3Totals.sa3_age_group_total, sa3, 0)

PopTotalOf(sa3) == Get(Sa3Totals.sa3_population_total, sa3, 0)

\* the proportion of SA3 a is at most that of SA3 b (an SA3 without population
\* has proportion 0)
ProportionLeq(a, b) ==
  IF PopTotalOf(a) = 0 THEN TRUE
  ELSE IF PopTotalOf(b) = 0 THEN AgeTotalOf(a) <= 0
  ELSE AgeTotalOf(a) * PopTotalOf(b) <= AgeTotalOf(b) * PopTotalOf(a)

\* C6: for each state, the state_max_sa3 entry names the SA3 with the highest
\* proportion (target age group population over total population) among the
\* state's SA3s, and the reported number is that SA3's proportion.
C6_HighestProportion ==
  (pc = "p1_done" /\ result = "tuple") =>
    \A i \in 1..Len(state_max_sa3) :
      LET entry == state_max_sa3[i]
      IN  \E sa3 \in SetOf(hierarchy.state_to_sa3_map[entry[1]]) :
            /\ entry[2] = hierarchy.sa3_to_name[sa3]
            /\ \A other \in SetOf(hierarchy.state_to_sa3_map[entry[1]]) :
                 ProportionLeq(other, sa3)
            /\ entry[3] = (IF PopTotalOf(sa3) = 0 THEN 0
                           ELSE Round4(AgeTotalOf(sa3), PopTotalOf(sa3)))

(***************************************************************************)
(* Project 2: clean_data                                                   *)
(* An area row and a population record are records of their columns.       *)
(***************************************************************************)
RECURSIVE AreaIndex(_, _)
\* lines 105-107: sa2_code_to_area, the last row of a code wins
AreaIndex(d, rows) ==
  IF Len(rows) = 0 THEN d
  ELSE AreaIndex(Put(d, Lower(Head(rows).sa2_code), Head(rows)), Tail(rows))

\* lines 113-125: one population record, kept or dropped
CleanStep(acc, record, sa2_code_to_area) ==
  LET code == record.sa2_code
      key  == code \o record.age
  IN  IF code \notin DOMAIN sa2_code_to_area THEN acc
      ELSE IF key \in acc.seen THEN acc
      ELSE [seen          |-> acc.seen \cup {key},
            cleaned_areas |-> Append(acc.cleaned_areas,
                                     [sa2_code_to_area[code] EXCEPT !.sa2_name = record.sa2_name]),
            cleaned_pops  |-> Append(acc.cleaned_pops, record)]

RECURSIVE CleanRows(_, _, _)
CleanRows(acc, records, sa2_code_to_area) ==
  IF Len(records) = 0 THEN acc
  ELSE CleanRows(CleanStep(acc, Head(records), sa2_code_to_area), Tail(records),
                 sa2_code_to_area)

\* the first record taken for a header and skipped
clean_data_SkipFirst(a_rows, p_rows) ==
  LET acc == CleanRows([seen |-> {}, cleaned_areas |-> <<>>, cleaned_pops |-> <<>>],
                       IF Len(p_rows) = 0 THEN <<>> ELSE Tail(p_rows),
                       AreaIndex(EmptyDict, a_rows))
  IN  <<acc.cleaned_areas, acc.cleaned_pops>>

\* clean_data(area_rows, pop_rows)
clean_data(a_rows, p_rows) ==
  LET acc == CleanRows([seen |-> {}, cleaned_areas |-> <<>>, cleaned_pops |-> <<>>],
                       p_rows, AreaIndex(EmptyDict, a_rows))
  IN  <<acc.cleaned_areas, acc.cleaned_pops>>

\* main, line 475
P2Clean ==
  /\ pc = "p2_start"
  /\ cleaned_areas' = clean_data(area_rows, pop_rows)[1]
  /\ cleaned_pops' = clean_data(area_rows, pop_rows)[2]
  /\ pc' = "p2_cleaned"
  /\ UNCHANGED <<ageVars, areaVars, mainVars, statVars, p2InVars, recleaned, area_lookup, op1, op2, op3>>

\* the cleaned records joined again with the same area rows
Reclean ==
  /\ pc = "p2_cleaned"
  /\ recleaned' = clean_data(area_rows, cleaned_pops)
  /\ pc' = "p2_recleaned"
  /\ UNCHANGED <<ageVars, areaVars, mainVars, statVars, p2InVars, cleaned_areas, cleaned_pops,
                 area_lookup, op1, op2, op3>>

NextClean ==
  \/ P2Clean
  \/ Reclean

\* ---- the inputs of clean_data ----
AreaRow(st_code, st_name, sa3_code, sa3_name, sa2_code, sa2_name) ==
  [state_code |-> st_code, state_name |-> st_name, sa3_code |-> sa3_code,
   sa3_name |-> sa3_name, sa2_code |-> sa2_code, sa2_name |-> sa2_name]

PopRecord(sa2_name, sa2_code, age_label, population) ==
  [sa2_name |-> sa2_name, sa2_code |-> sa2_code, age |-> age_label, population |-> population]

\* SA2 codes of the area file: one is the other with a digit more
CleanAreaCodes == { <<"1">>, <<"1", "1">> }

\* SA2 codes of the population file: those, and one the area file does not hold
CleanPopCodes == CleanAreaCodes \cup { <<"2">> }

\* age labels as read_population_file leaves them ("0-14", "10-14")
CleanAges == { <<"0", "-", "1", "4">>, <<"1", "0", "-", "1", "4">> }

\* the SA2 name the files give a code
NameOfCode(code) == <<"n">> \o code

CleanAreaRows ==
  { AreaRow(<<"4">>, <<"S", "A">>, sa3, <<"N">> \o sa3, code, <<"N">> \o code) :
      sa3 \in Sa3Codes, code \in CleanAreaCodes }

CleanPopRecords ==
  { PopRecord(NameOfCode(code), code, a, v) :
      code \in CleanPopCodes, a \in CleanAges, v \in 0..MaxVal }

\* the numbers of rows of the area file and of records of the population file
CleanAreaCounts == {0, 1, 2}

CleanPopCounts == {0, 1, 2, 3}

InitClean ==
  /\ pc = "p2_start"
  /\ area_rows \in SeqsUpTo(CleanAreaRows, Max(CleanAreaCounts))
  /\ pop_rows \in SeqsUpTo(CleanPopRecords, Max(CleanPopCounts))
  /\ P2OutIdle
  /\ AgeIdle
  /\ AreaIdle
  /\ MainIdle
  /\ StatIdle

SpecClean == InitClean /\ [][NextClean]_vars

\* C9: reconciliation is idempotent: clean_data on the same area rows and the
\* population records it returned gives the same population records, in the
\* same order, and the same area records.
C9_Idempotent ==
  pc = "p2_recleaned" => recleaned = <<cleaned_areas, cleaned_pops>>

\* a second pass that had something to drop the first time and something to keep
C9_Witness ==
  /\ pc = "p2_recleaned"
  /\ Len(cleaned_pops) >= 2
  /\ Len(cleaned_pops) < Len(pop_rows)
  /\ recleaned = <<cleaned_areas, cleaned_pops>>

\* the record's SA2 code is the code of an area row
InAreaRows(record) ==
  \E i \in 1..Len(area_rows) : Lower(area_rows[i].sa2_code) = record.sa2_code

\* an earlier population record has the same SA2 code and the same age bucket
EarlierSamePair(i) ==
  \E j \in 1..(i - 1) :
    pop_rows[j].sa2_code = pop_rows[i].sa2_code /\ pop_rows[j].age = pop_rows[i].age

RECURSIVE JoinFrom(_)
\* the records i.. that the inner join with first-wins deduplication keeps
JoinFrom(i) ==
  IF i > Len(pop_rows) THEN <<>>
  ELSE (IF InAreaRows(pop_rows[i]) /\ ~EarlierSamePair(i) THEN <<pop_rows[i]>> ELSE <<>>)
       \o JoinFrom(i + 1)

\* C10: clean_data is an inner join with first-wins deduplication on the pair
\* (sa2_code, age_bucket): the records kept are, in input order, exactly those
\* whose SA2 code is in the area rows and that no earlier record matches in both
\* SA2 code and age bucket.
C10_InnerJoinFirstWins ==
  pc = "p2_cleaned" => cleaned_pops = JoinFrom(1)


(***************************************************************************)
(* Project 2: create_area_lookup, output_OP1                               *)
(* A dict that is iterated keeps the order its keys were inserted in:      *)
(* keys is that order, val the mapping.                                    *)
(***************************************************************************)
RECURSIVE LookupRows(_, _)
\* lines 141-148: a later row of the same lower-cased SA2 name replaces the entry
LookupRows(lookup, rows) ==
  IF Len(rows) = 0 THEN lookup
  ELSE LET area == Head(rows)
       IN  LookupRows(Put(lookup, Lower(area.sa2_name),
                          [state_name |-> Lower(area.state_name),
                           sa3_name   |-> Lower(area.sa3_name),
                           state_code |-> Lower(area.state_code),
                           sa3_code   |-> Lower(area.sa3_code),
                           sa2_code   |-> Lower(area.sa2_code)]),
                      Tail(rows))

create_area_lookup(rows) == LookupRows(EmptyDict, rows)

\* lines 166-168, 279-281, 388-390: the records (by position) whose lower-cased
\* SA2 name the lookup holds
Known(records, lookup) ==
  {i \in 1..Len(records) : Lower(records[i].sa2_name) \in DOMAIN lookup}

\* area_lookup[sa2] of record i
AreaOf(records, lookup, i) == lookup[Lower(records[i].sa2_name)]

\* the keys a loop over the records I inserts in a dict, in the order of their
\* first insertion (K[i]: the key of record i)
InsertionOrder(I, K) ==
  LET firsts == {i \in I : \A j \in I : j < i => K[j] # K[i]}
  IN  [k \in 1..Cardinality(firsts) |->
         K[CHOOSE i \in firsts : Cardinality({j \in firsts : j < i}) = k - 1]]

\* d[K[i]] += records[i].population over the records I, as a dict that is
\* iterated (lines 176-179)
SumBy(records, I, K) ==
  [keys |-> InsertionOrder(I, K),
   val  |-> [name \in {K[i] : i \in I} |->
               SumSeq([i \in 1..Len(records) |->
                         IF i \in I /\ K[i] = name THEN records[i].population ELSE 0])]]

\* lines 163-179: results after the loop over the records
Op1Results(records, lookup) ==
  LET known == Known(records, lookup)
      StateOf == [i \in known |-> AreaOf(records, lookup, i).state_name]
      Sa3Of   == [i \in known |-> AreaOf(records, lookup, i).sa3_name]
      Sa2Of   == [i \in known |-> Lower(records[i].sa2_name)]
  IN  [age_label \in {records[i].age : i \in known} |->
         LET I == {i \in known : records[i].age = age_label}
         IN  [state |-> SumBy(records, I, StateOf),
              sa3   |-> SumBy(records, I, Sa3Of),
              sa2   |-> SumBy(records, I, Sa2Of)]]

RECURSIVE MaxScan(_, _, _)
\* lines 184-192: the keys of the largest value, in iteration order (is_none:
\* max_value is still None)
MaxScan(acc, keys, val) ==
  IF Len(keys) = 0 THEN acc
  ELSE LET k == Head(keys)
           v == val[k]
       IN  MaxScan(IF acc.is_none \/ v > acc.max_value
                   THEN [is_none |-> FALSE, max_value |-> v, max_list |-> <<k>>]
                   ELSE IF v = acc.max_value
                        THEN [acc EXCEPT !.max_list = Append(@, k)]
                        ELSE acc,
                   Tail(keys), val)

\* lines 184-194: the list of the keys of the largest value, sorted, its first
FirstOfMax(od) ==
  SortedStr(SetOf(MaxScan([is_none |-> TRUE, max_value |-> 0, max_list |-> <<>>], od.keys, od.val).max_list))[1]

output_OP1(p_rows, lookup) ==
  LET results == Op1Results(p_rows, lookup)
  IN  [age_label \in DOMAIN results |->
         <<FirstOfMax(results[age_label].state),
           FirstOfMax(results[age_label].sa3),
           FirstOfMax(results[age_label].sa2)>>]

(***************************************************************************)
(* Project 2: calculate_sample_sd, output_OP2                              *)
(***************************************************************************)
PopFloor == 150000

\* n times the sum of (x - mean) ** 2, which is the sum over the pairs of
\* numbers of the square of their difference
SquaredDiffSum(numbers) ==
  LET n == Len(numbers)
  IN  SumSeq([k \in 1..(n * n) |->
                LET i == ((k - 1) \div n) + 1
                    j == ((k - 1) % n) + 1
                IN  IF i < j THEN (numbers[i] - numbers[j]) * (numbers[i] - numbers[j]) ELSE 0])

\* calculate_sample_sd with its guard one too low: a single number reaches the
\* division by n - 1, an empty list the division by n
calculate_sample_sd_GuardBelowOne(numbers) ==
  LET n == Len(numbers)
  IN  IF n < 0 THEN [error |-> "", sd |-> 0]
      ELSE IF n = 0 \/ n - 1 = 0 THEN [error |-> "ZeroDivisionError", sd |-> 0]
      ELSE [error |-> "", sd |-> RoundRoot4(SquaredDiffSum(numbers), n * (n - 1))]

\* calculate_sample_sd(numbers): the value in units of 1/Scale, or the
\* ZeroDivisionError Python raises when a divisor is 0
calculate_sample_sd(numbers) ==
  LET n == Len(numbers)
  IN  IF n < 2 THEN [error |-> "", sd |-> 0]
      ELSE IF n = 0 \/ n - 1 = 0 THEN [error |-> "ZeroDivisionError", sd |-> 0]
      ELSE [error |-> "", sd |-> RoundRoot4(SquaredDiffSum(numbers), n * (n - 1))]

\* list(d.values()), the keys taken in sorted order
Values(d) ==
  LET ks == SortedStr(DOMAIN d)
  IN  [i \in 1..Len(ks) |-> d[ks[i]]]

\* d[K[i]] = records[i].population over the records I: the last record of a
\* key leaves its population (lines 293, 398)
LastBy(records, I, K) ==
  [k \in {K[i] : i \in I} |-> records[Max({i \in I : K[i] = k})].population]

\* lines 277-293: structure after the loop over the records; the dict of an
\* SA3 is iterated, keys is the order of its SA2 codes
Op2Structure(records, lookup) ==
  LET known == Known(records, lookup)
      StateOf == [i \in known |-> AreaOf(records, lookup, i).state_code]
      Sa3Of   == [i \in known |-> AreaOf(records, lookup, i).sa3_code]
      Sa2Of   == [i \in known |-> AreaOf(records, lookup, i).sa2_code]
      AgeOf   == [i \in known |-> records[i].age]
  IN  [state_code \in {StateOf[i] : i \in known} |->
         [sa3_code \in {Sa3Of[i] : i \in {h \in known : StateOf[h] = state_code}} |->
            LET I == {i \in known : StateOf[i] = state_code /\ Sa3Of[i] = sa3_code}
            IN  [keys |-> InsertionOrder(I, Sa2Of),
                 val  |-> [sa2_code \in {Sa2Of[i] : i \in I} |->
                             LastBy(records, {i \in I : Sa2Of[i] = sa2_code}, AgeOf)]]]]

\* lines 306-309: the total of one SA2 of an SA3
Sa2Total(of_sa3, sa2_code) == SumSeq(Values(of_sa3.val[sa2_code]))

\* lines 304-310
TotalOfSa3(of_sa3) ==
  SumSeq([i \in 1..Len(of_sa3.keys) |-> Sa2Total(of_sa3, of_sa3.keys[i])])

\* lines 311-312
BelowFloor(total_pop) == total_pop < PopFloor

\* lines 315-337: the entry of an SA3 that reaches the floor
Op2Entry(of_sa3) ==
  LET totals      == [c \in DOMAIN of_sa3.val |-> Sa2Total(of_sa3, c)]
      biggest_sa2 == FirstOfMax([keys |-> of_sa3.keys, val |-> totals])
      age_counts  == Values(of_sa3.val[biggest_sa2])
  IN  <<biggest_sa2, SumSeq(age_counts), calculate_sample_sd(age_counts).sd>>

output_OP2(p_rows, lookup) ==
  LET structure == Op2Structure(p_rows, lookup)
  IN  [state_code \in DOMAIN structure |->
         [sa3_code \in {c \in DOMAIN structure[state_code] :
                          ~BelowFloor(TotalOfSa3(structure[state_code][c]))} |->
            Op2Entry(structure[state_code][sa3_code])]]

(***************************************************************************)
(* Project 2: cosine_similarity, output_OP3                                *)
(***************************************************************************)
MinSa2s == 15

\* cosine_similarity with the norms left squared (no ** 0.5)
cosine_similarity_NoRoot(list1, list2) ==
  LET dot   == SumSeq([i \in 1..Len(list1) |-> list1[i] * list2[i]])
      norm1 == DotSeq(list1, list1)
      norm2 == DotSeq(list2, list2)
  IN  IF norm1 = 0 \/ norm2 = 0 THEN 0 ELSE Round4(dot, norm1 * norm2)

\* cosine_similarity(list1, list2), in units of 1/Scale.  output_OP3 passes each
\* list divided by its positive sum, which leaves the quotient as it is.
cosine_similarity(list1, list2) ==
  LET dot   == SumSeq([i \in 1..Len(list1) |-> list1[i] * list2[i]])
      norm1 == DotSeq(list1, list1)
      norm2 == DotSeq(list2, list2)
  IN  IF norm1 = 0 \/ norm2 = 0 THEN 0
      ELSE IF dot < 0 THEN 0 - RoundRoot4(dot * dot, norm1 * norm2)
      ELSE RoundRoot4(dot * dot, norm1 * norm2)

\* lines 386-398: sa3_to_sa2 after the loop over the records
Op3Groups(records, lookup) ==
  LET known == Known(records, lookup)
      Sa3Of == [i \in known |-> AreaOf(records, lookup, i).sa3_name]
      Sa2Of == [i \in known |-> Lower(records[i].sa2_name)]
      AgeOf == [i \in known |-> records[i].age]
  IN  [sa3 \in {Sa3Of[i] : i \in known} |->
         LET I == {i \in known : Sa3Of[i] = sa3}
         IN  [sa2 \in {Sa2Of[i] : i \in I} |->
                LastBy(records, {i \in I : Sa2Of[i] = sa2}, AgeOf)]]

\* lines 409-429: the pair of two SA2s of an SA3, or nothing
PairOf(of_sa3, sa2a, sa2b) ==
  LET all_ages == SortedStr((DOMAIN of_sa3[sa2a]) \cup (DOMAIN of_sa3[sa2b]))
      pop_a == [k \in 1..Len(all_ages) |-> Get(of_sa3[sa2a], all_ages[k], 0)]
      pop_b == [k \in 1..Len(all_ages) |-> Get(of_sa3[sa2b], all_ages[k], 0)]
  IN  IF SumSeq(pop_a) = 0 \/ SumSeq(pop_b) = 0 THEN <<>>
      ELSE << <<sa2a, sa2b, cosine_similarity(pop_a, pop_b)>> >>

RECURSIVE PairsWith(_, _, _, _)
\* lines 408-429: the pairs (i, j), (i, j + 1), ... of the inner loop
PairsWith(i, j, sa2_list, of_sa3) ==
  IF j > Len(sa2_list) THEN <<>>
  ELSE PairOf(of_sa3, sa2_list[i], sa2_list[j]) \o PairsWith(i, j + 1, sa2_list, of_sa3)

RECURSIVE PairsFrom(_, _, _)
\* lines 407-429: the pairs of the outer loop from i on
PairsFrom(i, sa2_list, of_sa3) ==
  IF i > Len(sa2_list) THEN <<>>
  ELSE PairsWith(i, i + 1, sa2_list, of_sa3) \o PairsFrom(i + 1, sa2_list, of_sa3)

\* lines 433-436: the largest similarity of the pairs
MaxSimilarity(pairs) == Max({pairs[k][3] : k \in 1..Len(pairs)})

\* pair_sort_key without the combined population: the names alone decide
pair_sort_key_NamesOnly(pair, of_sa3) ==
  IF StrLess(pair[1], pair[2]) THEN <<0, pair[1], pair[2]>> ELSE <<0, pair[2], pair[1]>>

\* lines 440-444
pair_sort_key(pair, of_sa3) ==
  LET pop_a == SumSeq(Values(of_sa3[pair[1]]))
      pop_b == SumSeq(Values(of_sa3[pair[2]]))
  IN  IF StrLess(pair[1], pair[2]) THEN <<0 - (pop_a + pop_b), pair[1], pair[2]>>
      ELSE <<0 - (pop_a + pop_b), pair[2], pair[1]>>

\* key < best_key on the tuples of line 444
KeyLess(key, best_key) ==
  \/ key[1] < best_key[1]
  \/ /\ key[1] = best_key[1]
     /\ \/ StrLess(key[2], best_key[2])
        \/ key[2] = best_key[2] /\ StrLess(key[3], best_key[3])

\* lines 446-453: the first of the top pairs that no other one's key is below
BestIdx(top_pairs, of_sa3) ==
  CHOOSE idx \in 1..Len(top_pairs) :
    /\ \A other \in 1..Len(top_pairs) :
         ~KeyLess(pair_sort_key(top_pairs[other], of_sa3), pair_sort_key(top_pairs[idx], of_sa3))
    /\ \A earlier \in 1..(idx - 1) :
         KeyLess(pair_sort_key(top_pairs[idx], of_sa3), pair_sort_key(top_pairs[earlier], of_sa3))

\* line 402 (the mutation asks for more than the floor)
TooFew_Inclusive(of_sa3) == Cardinality(DOMAIN of_sa3) <= MinSa2s

TooFew(of_sa3) == Cardinality(DOMAIN of_sa3) < MinSa2s

\* lines 404-429
Op3Pairs(of_sa3) == PairsFrom(1, SortedStr(DOMAIN of_sa3), of_sa3)

\* lines 433-458: the entry of an SA3 that has pairs
Op3Entry(of_sa3) ==
  LET pairs == Op3Pairs(of_sa3)
      max_similarity == MaxSimilarity(pairs)
      IsTop(p) == p[3] = max_similarity
      top_pairs == SelectSeq(pairs, IsTop)
      top_pair == top_pairs[BestIdx(top_pairs, of_sa3)]
  IN  IF StrLess(top_pair[1], top_pair[2]) THEN <<top_pair[1], top_pair[2], top_pair[3]>>
      ELSE <<top_pair[2], top_pair[1], top_pair[3]>>

output_OP3(p_rows, lookup) ==
  LET sa3_to_sa2 == Op3Groups(p_rows, lookup)
  IN  [sa3 \in {s \in DOMAIN sa3_to_sa2 :
                  ~TooFew(sa3_to_sa2[s]) /\ Len(Op3Pairs(sa3_to_sa2[s])) > 0} |->
         Op3Entry(sa3_to_sa2[sa3])]

(***************************************************************************)
(* Project 2: main                                                         *)
(***************************************************************************)
\* line 476
P2Lookup ==
  /\ pc = "p2_cleaned"
  /\ area_lookup' = create_area_lookup(cleaned_areas)
  /\ pc' = "p2_lookup"
  /\ UNCHANGED <<ageVars, areaVars, mainVars, statVars, p2InVars, cleaned_areas, cleaned_pops,
                 recleaned, op1, op2, op3>>

\* line 478
P2OP1 ==
  /\ pc = "p2_lookup"
  /\ op1' = output_OP1(cleaned_pops, area_lookup)
  /\ pc' = "p2_op1"
  /\ UNCHANGED <<ageVars, areaVars, mainVars, statVars, p2InVars, cleaned_areas, cleaned_pops,
                 recleaned, area_lookup, op2, op3>>

\* line 479
P2OP2 ==
  /\ pc = "p2_op1"
  /\ op2' = output_OP2(cleaned_pops, area_lookup)
  /\ pc' = "p2_op2"
  /\ UNCHANGED <<ageVars, areaVars, mainVars, statVars, p2InVars, cleaned_areas, cleaned_pops,
                 recleaned, area_lookup, op1, op3>>

\* lines 480-481
P2OP3 ==
  /\ pc = "p2_op2"
  /\ op3' = output_OP3(cleaned_pops, area_lookup)
  /\ pc' = "p2_done"
  /\ UNCHANGED <<ageVars, areaVars, mainVars, statVars, p2InVars, cleaned_areas, cleaned_pops,
                 recleaned, area_lookup, op1, op2>>

NextP2 ==
  \/ P2Clean
  \/ P2Lookup
  \/ P2OP1
  \/ P2OP2
  \/ P2OP3

\* ---- the inputs of Project 2's main: few SA2s, populations about the floor ----
P2Codes == { <<"1">>, <<"2">>, <<"3">> }

P2Ages == { <<"0", "-", "4">>, <<"5", "-", "9">> }

\* populations of which two reach the floor of output_OP2, or just miss it
P2PopValues == ((PopFloor \div 2) - MaxVal)..(PopFloor \div 2)

\* the SA2 names of the population file: one per code, or one shared by two codes
P2Names ==
  { [c \in P2Codes |-> NameOfCode(c)],
    [c \in P2Codes |-> IF c = <<"3">> THEN NameOfCode(<<"1">>) ELSE NameOfCode(c)] }

\* SA2 1 in SA3 31 of SA, SA2 2 in either SA3 of SA, SA2 3 in SA3 33 of SA or WA
\* under the SA2 name name_of_3
P2AreaTable(sa3_of_2, state_of_3, name_of_3) ==
  << AreaRow(<<"4">>, <<"S", "A">>, <<"3", "1">>, <<"N", "3", "1">>, <<"1">>, <<"N", "1">>),
     AreaRow(<<"4">>, <<"S", "A">>, sa3_of_2, <<"N">> \o sa3_of_2, <<"2">>, <<"N", "2">>),
     AreaRow(state_of_3[1], state_of_3[2], <<"3", "3">>, <<"N", "3", "3">>, <<"3">>,
             name_of_3) >>

P2States == { << <<"4">>, <<"S", "A">> >>, << <<"5">>, <<"W", "A">> >> }

\* the SA2 name the area file gives SA2 3: its own, or the name of SA2 1
P2AreaNames == { <<"N", "3">>, <<"N", "1">> }

P2AreaTables == { P2AreaTable(s, t, n) : s \in Sa3Codes, t \in P2States, n \in P2AreaNames }

P2PopRecords(names) ==
  { PopRecord(names[c], c, a, v) : c \in P2Codes, a \in P2Ages, v \in P2PopValues }

P2PopCounts == {0, 1, 2, 3}

InitP2 ==
  /\ pc = "p2_start"
  /\ area_rows \in P2AreaTables
  /\ \E names \in P2Names : pop_rows \in SeqsUpTo(P2PopRecords(names), Max(P2PopCounts))
  /\ P2OutIdle
  /\ AgeIdle
  /\ AreaIdle
  /\ MainIdle
  /\ StatIdle

SpecP2 == InitP2 /\ [][NextP2]_vars

\* ---- the inputs of output_OP3: an SA3 of about fifteen SA2s ----
\* the code of SA2 i, two digits long
TwoDigits(i) == IF i < 10 THEN <<"0">> \o Digits(i) ELSE Digits(i)

Op3Ages == << <<"0", "-", "4">>, <<"5", "-", "9">> >>

\* the age distributions of an SA2
Op3Vectors == { <<x, y>> : x \in 0..MaxVal, y \in 0..MaxVal }

\* the numbers of SA2s of the large SA3
Op3Sizes == {MinSa2s - 1, MinSa2s, MinSa2s + 1}

\* the SA3 of SA2 i: the SA2s after the first size ones are in a small SA3
Op3AreaRow(i, size) ==
  LET sa3 == IF i <= size THEN <<"3", "1">> ELSE <<"3", "2">>
  IN  AreaRow(<<"4">>, <<"S", "A">>, sa3, <<"N">> \o sa3, TwoDigits(i), <<"N">> \o TwoDigits(i))

\* the records read_population_file makes of the row of SA2 i
Op3PopRows(i, sa2_name, vector) ==
  [k \in 1..Len(Op3Ages) |-> PopRecord(sa2_name, TwoDigits(i), Op3Ages[k], vector[k])]

RECURSIVE Op3File(_, _, _, _, _, _)
\* the records of SA2s i..last: the first and the last SA2 of the large SA3 have
\* the distributions first and last, the others all the same one; shared: the
\* file gives the second SA2 the name of the first
Op3File(i, size, first, filler, last, shared) ==
  IF i > size + 2 THEN <<>>
  ELSE Op3PopRows(i,
                  NameOfCode(TwoDigits(IF shared /\ i = 2 THEN 1 ELSE i)),
                  IF i = 1 THEN first
                  ELSE IF i = size THEN last
                  ELSE IF i > size THEN <<1, 0>>
                  ELSE filler)
       \o Op3File(i + 1, size, first, filler, last, shared)

Op3Fillers == { <<0, 0>>, <<1, 1>> }

InitOP3 ==
  /\ pc = "p2_start"
  /\ \E size \in Op3Sizes, first \in Op3Vectors, last \in Op3Vectors, filler \in Op3Fillers,
        shared \in BOOLEAN :
       /\ area_rows = [i \in 1..(size + 2) |-> Op3AreaRow(i, size)]
       /\ pop_rows = Op3File(1, size, first, filler, last, shared)
  /\ P2OutIdle
  /\ AgeIdle
  /\ AreaIdle
  /\ MainIdle
  /\ StatIdle

SpecOP3 == InitOP3 /\ [][NextP2]_vars

(***************************************************************************)
(* The searches for an extremal element (C5)                               *)
(***************************************************************************)
\* the orders the rows s can come in
Perms(s) ==
  IF Len(s) = 0 THEN {<<>>}
  ELSE {[i \in 1..Len(s) |-> s[f[i]]] : f \in Permutations(1..Len(s))}

\* the name of cleaned record i at a level of output_OP1
LevelName(level, i) ==
  IF level = "sa2" THEN Lower(cleaned_pops[i].sa2_name)
  ELSE IF level = "sa3" THEN AreaOf(cleaned_pops, area_lookup, i).sa3_name
  ELSE AreaOf(cleaned_pops, area_lookup, i).state_name

\* the population of an age bucket in the region of that name
Op1Score(level, age_label, name) ==
  SumSeq([i \in 1..Len(cleaned_pops) |->
            IF /\ i \in Known(cleaned_pops, area_lookup)
               /\ cleaned_pops[i].age = age_label
               /\ LevelName(level, i) = name
            THEN cleaned_pops[i].population ELSE 0])

Op1Names(level) == {LevelName(level, i) : i \in Known(cleaned_pops, area_lookup)}

\* output_OP1: each winner has the largest score, and the smallest name of those
Op1SearchOk ==
  \A age_label \in DOMAIN op1 :
    \A l \in 1..3 :
      LET level  == <<"state", "sa3", "sa2">>[l]
          winner == op1[age_label][l]
      IN  \A other \in Op1Names(level) :
            \/ Op1Score(level, age_label, other) < Op1Score(level, age_label, winner)
            \/ /\ Op1Score(level, age_label, other) = Op1Score(level, age_label, winner)
               /\ (other = winner \/ StrLess(winner, other))

\* the cleaned records of an SA2 code of an SA3 code of a state code
Op2Records(state_code, sa3_code, sa2_code) ==
  {i \in Known(cleaned_pops, area_lookup) :
     /\ AreaOf(cleaned_pops, area_lookup, i).state_code = state_code
     /\ AreaOf(cleaned_pops, area_lookup, i).sa3_code = sa3_code
     /\ AreaOf(cleaned_pops, area_lookup, i).sa2_code = sa2_code}

\* the total population of that SA2
Op2Score(state_code, sa3_code, sa2_code) ==
  SumSeq([i \in 1..Len(cleaned_pops) |->
            IF i \in Op2Records(state_code, sa3_code, sa2_code)
            THEN cleaned_pops[i].population ELSE 0])

\* output_OP2: each SA2 reported has the largest total of its SA3, and the
\* smallest code of those
Op2SearchOk ==
  \A state_code \in DOMAIN op2 :
    \A sa3_code \in DOMAIN op2[state_code] :
      LET winner == op2[state_code][sa3_code][1]
      IN  \A i \in Known(cleaned_pops, area_lookup) :
            LET other == AreaOf(cleaned_pops, area_lookup, i).sa2_code
            IN  Op2Records(state_code, sa3_code, other) # {} =>
                  \/ Op2Score(state_code, sa3_code, other)
                       < Op2Score(state_code, sa3_code, winner)
                  \/ /\ Op2Score(state_code, sa3_code, other)
                          = Op2Score(state_code, sa3_code, winner)
                     /\ (other = winner \/ StrLess(winner, other))

\* Project 1: the SA3 of each state's entry has the largest count of the state,
\* and the smallest code of those
P1SearchOk ==
  \A i \in 1..Len(state_max_sa3) :
    LET entry == state_max_sa3[i]
    IN  \E sa3 \in SetOf(hierarchy.state_to_sa3_map[entry[1]]) :
          /\ entry[2] = hierarchy.sa3_to_name[sa3]
          /\ \A other \in SetOf(hierarchy.state_to_sa3_map[entry[1]]) :
               \/ AgeTotalOf(other) < AgeTotalOf(sa3)
               \/ AgeTotalOf(other) = AgeTotalOf(sa3) /\ (other = sa3 \/ StrLess(sa3, other))

\* the outputs do not depend on the order of the rows
PermutationOk ==
  \A rows \in Perms(cleaned_pops) :
    /\ output_OP1(rows, area_lookup) = op1
    /\ output_OP2(rows, area_lookup) = op2

\* C5: in output_OP1, output_OP2 and Project 1's search over the SA3s of a state
\* the winner has the largest score and, of the keys of that score, the
\* lexicographically smallest one, and the result is the same for every
\* permutation of the input rows.
C5_OrderIndependentSearch ==
  /\ pc = "p2_done" => (Op1SearchOk /\ Op2SearchOk /\ PermutationOk)
  /\ (pc = "p1_done" /\ result = "tuple") => P1SearchOk


(***************************************************************************)
(* The member floor of output_OP3 (C7)                                     *)
(***************************************************************************)
\* the SA3 names of the area file
Sa3NamesOfFile == {Lower(area_rows[a].sa3_name) : a \in 1..Len(area_rows)}

\* the member SA2s of an SA3: the SA2 names of the population records that the
\* area lookup places in the SA3
MembersOf(sa3) ==
  {Lower(cleaned_pops[i].sa2_name) :
     i \in {k \in Known(cleaned_pops, area_lookup) :
              AreaOf(cleaned_pops, area_lookup, k).sa3_name = sa3}}

\* record i is the last one of its SA2 name and age bucket
Stands(i) ==
  \A j \in (i + 1)..Len(cleaned_pops) :
    \/ Lower(cleaned_pops[j].sa2_name) # Lower(cleaned_pops[i].sa2_name)
    \/ cleaned_pops[j].age # cleaned_pops[i].age

\* the total population of the SA2 of that name, over its age buckets
PopulationOf(sa2) ==
  SumSeq([i \in 1..Len(cleaned_pops) |->
            IF Lower(cleaned_pops[i].sa2_name) = sa2 /\ Stands(i)
            THEN cleaned_pops[i].population ELSE 0])

\* the members of an SA3 that have people
PopulatedOf(sa3) == {sa2 \in MembersOf(sa3) : PopulationOf(sa2) > 0}

\* the SA3 is in the result, with two distinct SA2s out of S
HasPairOf(sa3, S) ==
  /\ sa3 \in DOMAIN op3
  /\ op3[sa3][1] # op3[sa3][2]
  /\ op3[sa3][1] \in S
  /\ op3[sa3][2] \in S

SdPending == [error |-> "pending", sd |-> 0]

\* the lists calculate_sample_sd is applied to: none, one, two or three numbers
SdLengths == {0, 1, 2, 3}

SdNumbers == SeqsUpTo(0..MaxVal, Max(SdLengths))

\* age fields of the population rows of these runs: the target group's count is
\* 0, 2 or unreadable
SdFields ==
  { << <<"0">>, <<"0">>, <<"0">> >>,
    << <<"2">>, <<"0">>, <<"1">> >>,
    << <<"x">>, <<"1">>, <<"0">> >> }

SdPopRows == { <<Sa2Code(d), <<"n">>>> \o f : d \in PopSa2Digits, f \in SdFields }

InitSd ==
  /\ pc = "p1_validate"
  /\ target_age \in TargetAges
  /\ \E codes \in ArgSa2Pairs : sa2_code_1 = codes[1] /\ sa2_code_2 = codes[2]
  /\ arg_types = <<"int", "str", "str">>
  /\ area_lines \in AreaTables
  /\ population_lines \in {<<PopHeader>> \o rows : rows \in SeqsUpTo(SdPopRows, Max(PopFileRows))}
  /\ hierarchy = <<>>
  /\ AgeIdle
  /\ OutIdle
  /\ P2Idle
  /\ sd_numbers \in SdNumbers
  /\ sd_out = SdPending
  /\ cos_list1 = <<>>
  /\ cos_list2 = <<>>
  /\ cosine_out = <<>>

\* calculate_sample_sd(sd_numbers)
SampleSd ==
  /\ sd_out.error = "pending"
  /\ sd_out' = calculate_sample_sd(sd_numbers)
  /\ UNCHANGED <<pc, ageVars, areaVars, mainVars, p2Vars, sd_numbers, cos_list1, cos_list2,
                 cosine_out>>

NextSd == NextMain1 \/ SampleSd

SpecSd == InitSd /\ [][NextSd]_vars

\* the number of population rows Output 2 takes a count from for the SA3 of
\* the k-th SA2 code argument
Output2Rows(k) ==
  LET sa2_code == IF k = 1 THEN sa2_code_1 ELSE sa2_code_2
      sa3_code == hierarchy.sa2_to_sa3[sa2_code]
  IN  Cardinality({i \in 2..Len(population_lines) :
                     /\ Strip(population_lines[i][1]) \in DOMAIN hierarchy.sa2_to_sa3
                     /\ hierarchy.sa2_to_sa3[Strip(population_lines[i][1])] = sa3_code})

Output2Known(k) ==
  (IF k = 1 THEN sa2_code_1 ELSE sa2_code_2) \in DOMAIN hierarchy.sa2_to_sa3

\* C11: a group of one data point has standard deviation 0.0 and an empty
\* group has mean and standard deviation 0.0, in Output 2 of Project 1 and in
\* calculate_sample_sd, and no division by n - 1 (or by n) happens with n < 2.
C11_DegenerateSd ==
  /\ sd_out.error \notin {"pending", "ZeroDivisionError"}
       => (Len(sd_numbers) < 2 => sd_out.sd = 0)
  /\ sd_out.error # "ZeroDivisionError"
  /\ sa3_stats # <<>>
       => \A k \in {1, 2} :
            IF ~Output2Known(k) THEN sa3_stats[k][2] = 0 /\ sa3_stats[k][3] = 0
            ELSE /\ Output2Rows(k) = 1 => sa3_stats[k][3] = 0
                 /\ Output2Rows(k) = 0 => sa3_stats[k][2] = 0 /\ sa3_stats[k][3] = 0

\* a single positive number went through calculate_sample_sd, and Output 2 has
\* reported a group of one row with a positive mean and one for an unknown code
C11_Witness ==
  /\ sd_out.error = ""
  /\ Len(sd_numbers) = 1
  /\ sd_numbers[1] > 0
  /\ sd_out.sd = 0
  /\ sa3_stats # <<>>
  /\ Output2Known(1)
  /\ Output2Rows(1) = 1
  /\ sa3_stats[1][2] > 0
  /\ sa3_stats[1][3] = 0
  /\ ~Output2Known(2)


(***************************************************************************)
(* Project 1 main on arguments of every kind                               *)
(***************************************************************************)
\* target_age as the caller may pass it: <<Python type, str() of the value>>
ArgAges ==
  { <<"int", <<"3">>>>, <<"int", <<"-", "1">>>>,
    <<"str", <<"3">>>>, <<"str", <<" ", "3", " ">>>>, <<"str", <<"-", "1">>>>,
    <<"str", <<"x">>>>, <<"str", <<>>>>,
    <<"None", <<"N", "o", "n", "e">>>> }

\* an SA2 code as the caller may pass it: nine digits (bare, padded, or as an
\* int), eight digits, ten digits, a letter among the digits, None
ArgCodes ==
  { <<"str", Sa2Code("1")>>, <<"str", <<" ">> \o Sa2Code("2") \o <<" ">>>>,
    <<"str", Tail(Sa2Code("1"))>>, <<"str", Sa2Code("1") \o <<"0">>>>,
    <<"str", Sa2Code("x")>>,
    <<"int", Sa2Code("1")>>, <<"int", Tail(Sa2Code("1"))>>,
    <<"None", <<"N", "o", "n", "e">>>> }

ArgArea == CHOOSE t \in AreaTables : t[3][2] = <<"S", "A">> /\ t[3][3] = <<"3", "1">>

ArgPopulation ==
  <<PopHeader, <<Sa2Code("1"), <<"n">>, <<"1">>, <<"0">>, <<"1">>>>,
               <<Sa2Code("2"), <<"n">>, <<"0">>, <<"1">>, <<"1">>>> >>

InitArgs ==
  /\ pc = "p1_validate"
  /\ \E a \in ArgAges, c1 \in ArgCodes, c2 \in ArgCodes :
       /\ arg_types = <<a[1], c1[1], c2[1]>>
       /\ target_age = a[2]
       /\ sa2_code_1 = c1[2]
       /\ sa2_code_2 = c2[2]
  /\ area_lines = ArgArea
  /\ population_lines = ArgPopulation
  /\ hierarchy = <<>>
  /\ AgeIdle
  /\ OutIdle
  /\ P2Idle
  /\ StatIdle

SpecArgs == InitArgs /\ [][NextMain1]_vars

\* int(target_age) gives a number
ConvertibleAge == arg_types[1] = "int" \/ (arg_types[1] = "str" /\ IntOk(target_age))

\* str(code), trimmed, is nine digits
NineDigits(code) == IsDigit(Strip(code)) /\ Len(Strip(code)) = Sa2CodeLen

ArgsValid ==
  /\ ConvertibleAge
  /\ IntOf(target_age) >= 0
  /\ NineDigits(sa2_code_1)
  /\ NineDigits(sa2_code_2)

\* C12: with a target_age that is negative or not convertible to an integer,
\* or an SA2 code that is not nine digits after trimming, main returns None
\* without reading an input file; with arguments that pass validation main
\* does not fail in the validation and normalisation steps.
C12_RejectBeforeWork ==
  pc # "p1_validate" =>
    IF ArgsValid THEN result # "raised"
    ELSE result = "None" /\ ~files_read


(***************************************************************************)
(* The pair output_OP3 reports for an SA3 (C13)                            *)
(***************************************************************************)
\* the SA2s output_OP3 has grouped under an SA3, with their age counts
GroupOf(sa3) == Op3Groups(cleaned_pops, area_lookup)[sa3]

\* the pairs of distinct SA2s of an SA3 that have a similarity, smaller name
\* first, each with its similarity and its combined total population
ScoredPairs(sa3) ==
  LET g == GroupOf(sa3)
  IN  { <<p[1], p[2], PairOf(g, p[1], p[2])[1][3],
          SumSeq(Values(g[p[1]])) + SumSeq(Values(g[p[2]]))>> :
          p \in {q \in (DOMAIN g) \X (DOMAIN g) :
                   StrLess(q[1], q[2]) /\ PairOf(g, q[1], q[2]) # <<>>} }

\* the scored pairs tied at the maximum similarity
TiedPairs(sa3) ==
  LET scored == ScoredPairs(sa3)
      top    == Max({p[3] : p \in scored})
  IN  {p \in scored : p[3] = top}

\* of a set of scored pairs, those of the largest combined population
Heaviest(tied) ==
  LET most == Max({p[4] : p \in tied})
  IN  {p \in tied : p[4] = most}

PairBefore(p, q) == StrLess(p[1], q[1]) \/ (p[1] = q[1] /\ StrLess(p[2], q[2]))

\* C13: of the SA2 pairs of an SA3 tied at the maximum similarity, output_OP3
\* reports one of the largest combined total population, of these the
\* lexicographically smallest (first name, then second name), and it reports
\* the pair with the smaller name first.
C13_TieBreak ==
  pc = "p2_done" =>
    \A sa3 \in DOMAIN op3 :
      LET won   == op3[sa3]
          heavy == Heaviest(TiedPairs(sa3))
      IN  /\ StrLess(won[1], won[2])
          /\ \E p \in heavy : p[1] = won[1] /\ p[2] = won[2] /\ p[3] = won[3]
          /\ \A q \in heavy : (q[1] = won[1] /\ q[2] = won[2]) \/ PairBefore(won, q)

\* an SA3 is reported whose tied pairs differ in combined population, with
\* several of the largest, and the pair reported is not the first by name of
\* all the tied pairs
C13_Witness ==
  /\ pc = "p2_done"
  /\ \E sa3 \in DOMAIN op3 :
       LET tied  == TiedPairs(sa3)
           heavy == Heaviest(tied)
       IN  /\ Cardinality(heavy) > 1
           /\ heavy # tied
           /\ \E q \in tied : PairBefore(q, op3[sa3])


(***************************************************************************)
(* output_OP2 against the area table (C14, C15, C18)                       *)
(***************************************************************************)
\* the population the cleaned records give SA2 code `code`
RecordsOfSa2(code) == {i \in 1..Len(cleaned_pops) : cleaned_pops[i].sa2_code = code}

PopulationOfRecords(I) ==
  SumSeq([i \in 1..Len(cleaned_pops) |-> IF i \in I THEN cleaned_pops[i].population ELSE 0])

\* the SA2 codes the area table puts in an SA3 of a state
Sa2sOfSa3(state_code, sa3_code) ==
  {cleaned_areas[k].sa2_code : k \in {h \in 1..Len(cleaned_areas) :
                                        /\ cleaned_areas[h].state_code = state_code
                                        /\ cleaned_areas[h].sa3_code = sa3_code}}

\* the records whose SA2 code belongs to the SA3 in the area table
RecordsOfSa3(state_code, sa3_code) ==
  {i \in 1..Len(cleaned_pops) : cleaned_pops[i].sa2_code \in Sa2sOfSa3(state_code, sa3_code)}

HasEntry(state_code, sa3_code) ==
  state_code \in DOMAIN op2 /\ sa3_code \in DOMAIN op2[state_code]

\* C14: output_OP2 has an entry for an SA3 under its state if and only if the
\* populations of all age buckets of all the SA3's SA2s sum to at least
\* 150,000, and an entry's population is the total of the SA2 it reports.
C14_FloorExact ==
  pc = "p2_done" =>
    /\ \A k \in 1..Len(cleaned_areas) :
         LET state_code == cleaned_areas[k].state_code
             sa3_code   == cleaned_areas[k].sa3_code
         IN  HasEntry(state_code, sa3_code)
               <=> PopulationOfRecords(RecordsOfSa3(state_code, sa3_code)) >= PopFloor
    /\ \A state_code \in DOMAIN op2 :
         \A sa3_code \in DOMAIN op2[state_code] :
           op2[state_code][sa3_code][2]
             = PopulationOfRecords(RecordsOfSa2(op2[state_code][sa3_code][1]))


\* C15: in the result of output_OP2 every state key maps to at least one SA3
\* entry; a state whose SA3s are all below the floor has no key.
C15_NoEmptyState ==
  pc = "p2_done" => \A state_code \in DOMAIN op2 : DOMAIN op2[state_code] # {}

\* the area row of an SA2 code (clean_data leaves one row per code)
AreaRowOf(code) ==
  cleaned_areas[CHOOSE k \in 1..Len(cleaned_areas) : cleaned_areas[k].sa2_code = code]

\* record i is aggregated under the codes of the area row of its own SA2 code
UnderOwnArea(i) ==
  /\ Lower(cleaned_pops[i].sa2_name) \in DOMAIN area_lookup
  /\ LET found == AreaOf(cleaned_pops, area_lookup, i)
         own   == AreaRowOf(cleaned_pops[i].sa2_code)
     IN  /\ found.sa2_code = Lower(own.sa2_code)
         /\ found.sa3_code = Lower(own.sa3_code)
         /\ found.state_code = Lower(own.state_code)

\* C18: every cleaned population record is aggregated under the state, SA3 and
\* SA2 code of the area row of its own SA2 code, and the population output_OP2
\* attributes to an SA3 is the sum over exactly the records whose SA2 code the
\* area table puts in that SA3.
C18_AggregatedByCode ==
  pc = "p2_done" =>
    /\ \A i \in 1..Len(cleaned_pops) : UnderOwnArea(i)
    /\ LET structure == Op2Structure(cleaned_pops, area_lookup)
       IN  \A state_code \in DOMAIN structure :
             \A sa3_code \in DOMAIN structure[state_code] :
               TotalOfSa3(structure[state_code][sa3_code])
                 = PopulationOfRecords(RecordsOfSa3(state_code, sa3_code))


(***************************************************************************)
(* cosine_similarity applied to drawn vectors (C16)                        *)
(***************************************************************************)
\* a call of cosine_similarity: line 354 reads list2[i] for every index of
\* list1, which raises IndexError when list2 is the shorter list
CosineCall(list1, list2) ==
  IF Len(list2) < Len(list1) THEN [error |-> "IndexError", value |-> 0]
  ELSE [error |-> "", value |-> cosine_similarity(list1, list2)]

CosinePending == [error |-> "pending", value |-> 0]

\* the lengths of the vectors
CosLengths == {0, 1, 2}

\* the entries of the vectors: one negative value, 0, and positive values
CosEntries == (0 - 1)..(MaxVal + 1)

CosVectors == SeqsUpTo(CosEntries, Max(CosLengths))

InitCos ==
  /\ pc = "cos_start"
  /\ cos_list1 \in CosVectors
  /\ cos_list2 \in CosVectors
  /\ cosine_out = CosinePending
  /\ sd_numbers = <<>>
  /\ sd_out = <<>>
  /\ AgeIdle
  /\ AreaIdle
  /\ MainIdle
  /\ P2Idle

\* cosine_similarity(cos_list1, cos_list2)
Cosine ==
  /\ pc = "cos_start"
  /\ cosine_out' = CosineCall(cos_list1, cos_list2)
  /\ pc' = "cos_done"
  /\ UNCHANGED <<ageVars, areaVars, mainVars, p2Vars, sd_numbers, sd_out, cos_list1, cos_list2>>

SpecCos == InitCos /\ [][Cosine]_vars

NonNegative(list) == \A i \in 1..Len(list) : list[i] >= 0

ZeroNorm(list) == \A i \in 1..Len(list) : list[i] = 0

\* C16: on two vectors of one length of non-negative numbers
\* cosine_similarity returns a value in [0, 1]; it returns 1.0 for a vector
\* with itself when the norm is not zero, and 0.0, without dividing, when
\* either vector has norm zero.
C16_CosineRange ==
  (pc = "cos_done" /\ Len(cos_list1) = Len(cos_list2)) =>
    /\ cosine_out.error = ""
    /\ (NonNegative(cos_list1) /\ NonNegative(cos_list2))
         => (0 <= cosine_out.value /\ cosine_out.value <= Scale)
    /\ (cos_list1 = cos_list2 /\ ~ZeroNorm(cos_list1)) => cosine_out.value = Scale
    /\ (ZeroNorm(cos_list1) \/ ZeroNorm(cos_list2)) => cosine_out.value = 0

\* a vector of two unequal positive entries was compared with itself
C16_Witness ==
  /\ pc = "cos_done"
  /\ cos_list1 = cos_list2
  /\ Len(cos_list1) = 2
  /\ cos_list1[1] > 0
  /\ cos_list1[2] > cos_list1[1]
  /\ cosine_out.value = Scale


(***************************************************************************)
(* The states of parse_area_data (C17)                                     *)
(***************************************************************************)
\* the data rows parse_area_data keeps: the first row of each SA2 code
KeptAreaRows ==
  {i \in 1..Len(AreaDataRows) :
     \A j \in 1..(i - 1) : Strip(AreaDataRows[j][5]) # Strip(AreaDataRows[i][5])}

\* C17: every kept area row has its SA3 code under the lower-cased, trimmed
\* state name, so that rows whose state names differ only in letter case or
\* surrounding blanks share one key of state_to_sa3_map; every key is such a
\* name, and every state's list of SA3 codes is strictly ascending.
C17_StatesNormalised ==
  pc = "area_done" =>
    LET map == hierarchy.state_to_sa3_map
    IN  /\ \A i \in KeptAreaRows :
             /\ Lower(Strip(AreaDataRows[i][2])) \in DOMAIN map
             /\ \E k \in 1..Len(map[Lower(Strip(AreaDataRows[i][2]))]) :
                  map[Lower(Strip(AreaDataRows[i][2]))][k] = Strip(AreaDataRows[i][3])
        /\ \A st \in DOMAIN map :
             /\ st = Lower(Strip(st))
             /\ \E i \in KeptAreaRows : Lower(Strip(AreaDataRows[i][2])) = st
             /\ \A k \in 1..(Len(map[st]) - 1) : StrLess(map[st][k], map[st][k + 1])

\* two kept rows spell one state in two ways, and the later SA3 code comes
\* first in the file
C17_Witness ==
  /\ pc = "area_done"
  /\ Cardinality(KeptAreaRows) = 2
  /\ {AreaDataRows[i][2] : i \in KeptAreaRows} = { <<"S", "A">>, <<" ", "s", "a">> }
  /\ AreaDataRows[1][3] = <<"3", "2">>
  /\ AreaDataRows[2][3] = <<"3", "1">>
  /\ DOMAIN hierarchy.state_to_sa3_map = { <<"s", "a">> }
  /\ hierarchy.state_to_sa3_map[<<"s", "a">>] = << <<"3", "1">>, <<"3", "2">> >>


(***************************************************************************)
(* Project 1 main on population files with signed counts (C19)             *)
(***************************************************************************)
\* age fields of a population row: counts as int() reads them, written with
\* digits only or with a sign
SignedFields ==
  { << <<"0">>, <<"0">>, <<"0">> >>,
    << <<"1">>, <<"1">>, <<"1">> >>,
    << <<"-", "1">>, <<"1">>, <<"1">> >>,
    << <<"-", "2">>, <<"1">>, <<"1">> >>,
    << <<"+", "2">>, <<"1">>, <<"0">> >> }

SignedPopRows == { <<Sa2Code(d), <<"n">>>> \o f : d \in PopSa2Digits, f \in SignedFields }

InitSigned ==
  /\ pc = "p1_validate"
  /\ target_age \in TargetAges
  /\ \E codes \in ArgSa2Pairs : sa2_code_1 = codes[1] /\ sa2_code_2 = codes[2]
  /\ arg_types = <<"int", "str", "str">>
  /\ area_lines \in AreaTables
  /\ population_lines \in
       {<<PopHeader>> \o rows : rows \in SeqsUpTo(SignedPopRows, Max(PopFileRows))}
  /\ hierarchy = <<>>
  /\ AgeIdle
  /\ OutIdle
  /\ P2Idle
  /\ StatIdle

SpecSigned == InitSigned /\ [][NextMain1]_vars

\* the SA3 names of a state of the hierarchy index
Sa3NamesOfState(state) ==
  LET sa3s == hierarchy.state_to_sa3_map[state]
  IN  {hierarchy.sa3_to_name[sa3s[k]] : k \in 1..Len(sa3s)}

\* C19: when main returns a result, state_max_sa3 has exactly one entry per
\* state of the hierarchy index, in ascending order of the state names, each
\* naming an SA3 of that state (a non-empty name) with a proportion in
\* [0, 1]; and the search never compares an SA3 code with the initial None.
C19_OneEntryPerState ==
  /\ error # "TypeError"
  /\ result = "tuple" =>
       LET states == SortedStr(DOMAIN hierarchy.state_to_sa3_map)
       IN  /\ Len(state_max_sa3) = Len(states)
           /\ \A k \in 1..Len(state_max_sa3) :
                /\ state_max_sa3[k][1] = states[k]
                /\ state_max_sa3[k][2] # <<>>
                /\ state_max_sa3[k][2] \in Sa3NamesOfState(states[k])
                /\ 0 <= state_max_sa3[k][3]
                /\ state_max_sa3[k][3] <= Scale

====
